---- MODULE Spec2Model ----
(***************************************************************************)
(* A model of the trade simulator: the order book engine                   *)
(* (src/utils/orderbook.py), the OKX feed client (src/ws/okx_ws.py), the   *)
(* orchestrating application (src/app.py) and the adaptive estimators      *)
(* (src/models).                                                           *)
(*                                                                         *)
(* Specifications:                                                         *)
(*   Spec        one OrderBook, update() called as a whole                 *)
(*   SpecDelta   one update() call on a book that holds a first snapshot   *)
(*   SpecRace    update() statement by statement, with a reader thread     *)
(*   SpecFeed    the feed client's connection life cycle                   *)
(*   SpecApp     the application: feed messages, symbol switch, estimates  *)
(*   SpecPredict two threads in MakerTakerModel.predict                    *)
(*   SpecQuery   the read-only queries of one OrderBook                    *)
(*   SpecStats   the book's price history and its statistics               *)
(*   SpecImpact  MarketImpactModel.calculate_impact on a book              *)
(*   SpecSlippage  SlippageModel.predict, call after call                  *)
(*   SpecMaker   MakerTakerModel.predict, call after call                  *)
(*   SpecImbalance  calculate_order_book_imbalance on deep books           *)
(*   SpecOpen    the feed client with _on_open statement by statement      *)
(*   SpecImpactRace  two request threads in calculate_impact               *)
(***************************************************************************)
EXTENDS Integers, Sequences, FiniteSets, TLC

\* ---------------------------------------------------------------- bounds

\* Longest delta list of one update() call (asks and bids together).
MaxDeltas == 1
\* update() calls on one book.
MaxUpdates == 2

\* Messages kept of one connection's outbound stream.
MaxWire == 4

\* Price levels and quantities of the modelled feed (quantity 0: remove).
Prices == {1, 2, 3}
Qtys == {0, 1, 2}
\* The max_depth values a book is constructed with (the constructor's default is 100).
Depths == {1, 2}
Symbols == {"A", "B"}
\* Python's None, for a variable that otherwise holds an object (a record).
None == [none |-> TRUE]

VARIABLES
  orderbook,    \* the OrderBook object (app.py's global: None before the first event)
  call,         \* SpecDelta: the update() call being observed, with the book before it
  upd,          \* SpecRace: the feed thread's frame inside update(): line and arguments
  seen,         \* SpecRace: what the query thread read from the book
  \* OKXWebsocket's attributes
  ws,               \* "None", "app": the WebSocketApp ws_thread runs, "spare": one no thread runs
  ws_thread,        \* "None", or the thread in run_forever: "connecting", "open", "closing", "dead"
  is_connected,
  subscriptions,
  ping_thread,      \* "None", "running", "dead"
  should_reconnect,
  credentials,      \* api_key and api_secret are both non-empty
  wire,             \* the messages sent on the connection opened last
  offline_ops,      \* subscribe/unsubscribe calls made since the transport last closed
  \* app.py
  current_symbol,
  read_loop,        \* the transport's read loop: where it is, the frame it took last
  consumer,         \* the event process_orderbook_update is working on, or NoEvent
  response,         \* the last answer of estimate_trade
  applied,          \* the symbols of the events applied to the book
  since_switch,     \* whether a switch happened, and the symbols of the events consumed since
  \* models/maker_taker.py: one MakerTakerModel and the request threads inside predict
  history,          \* self.history: samples from before, and the samples each thread appended
  trained,
  pc,               \* where each thread is in predict
  appended,         \* how many of its samples a thread's loop has appended
  sliced,           \* the value of self.history[-1000:] a thread holds before it stores it
  start_len,        \* len(self.history) before the two calls
  torn_fit,         \* a fit read the history while the other call was modifying it
  \* a request thread's call of one of the book's read methods or of an estimator
  query,            \* the call and what it returned, or None
  \* the estimators of app.py, their calls made one after the other
  slippage_model,   \* the SlippageModel: history, trained, the fit linear_model holds
  maker_taker_model, \* the MakerTakerModel: history, trained, the fit model holds
  \* the transport thread inside OKXWebsocket._on_open, statement by statement
  on_open,          \* where the handler is, and the iterator of its loop over subscriptions
  \* models/market_impact.py: app.py's one MarketImpactModel and the request threads in it
  market_impact_model,  \* self.temp_impact_eta and self.perm_impact_gamma
  impact_calls      \* each thread's calculate_impact call: where it is, arguments, result

raceVars == <<upd, seen>>
clientVars == <<ws, ws_thread, is_connected, subscriptions, ping_thread,
                should_reconnect, credentials, wire, offline_ops>>
appVars == <<current_symbol, read_loop, consumer, response, applied, since_switch>>
predVars == <<history, trained, pc, appended, sliced, start_len, torn_fit>>
estVars == <<slippage_model, maker_taker_model>>
frameVars == <<on_open, market_impact_model, impact_calls>>
vars == <<orderbook, call, upd, seen, clientVars, appVars, predVars, query, estVars,
          frameVars>>

\* What the actions of one component leave alone.
outsideBook == <<clientVars, appVars, predVars, query, estVars,
                 frameVars>>
outsideClient == <<orderbook, call, raceVars, appVars, predVars, query, estVars,
                   frameVars>>
outsideApp == <<call, raceVars, predVars, query, estVars,
                frameVars>>
outsidePred == <<orderbook, call, raceVars, clientVars, appVars, query, estVars,
                 frameVars>>
outsideQuery == <<orderbook, call, raceVars, clientVars, appVars, predVars, estVars,
                  frameVars>>

\* ------------------------------------------------------- order book engine

Deltas == Prices \X Qtys
SeqsUpTo(S, n) == UNION {[1..k -> S] : k \in 0..n}

\* The (asks, bids) arguments of one update() call.
DeltaArgs ==
  {ab \in SeqsUpTo(Deltas, MaxDeltas) \X SeqsUpTo(Deltas, MaxDeltas) :
     Len(ab[1]) + Len(ab[2]) <= MaxDeltas}

EmptyDict == [x \in {} |-> 0]

\* OrderBook.__init__
OrderBook(symbol, max_depth) ==
  [symbol |-> symbol, max_depth |-> max_depth,
   asks |-> <<>>, bids |-> <<>>,
   ask_dict |-> EmptyDict, bid_dict |-> EmptyDict,
   timestamp |-> 0,
   mid_price_history |-> <<>>, spread_history |-> <<>>, depth_history |-> <<>>,
   update_count |-> 0]

\* A mutation of ApplyDelta: the quantity is added to the level's quantity.
ApplyDeltaAdditive(d, price, quantity) ==
  IF quantity > 0
    THEN [x \in DOMAIN d \cup {price} |->
            IF x = price THEN (IF price \in DOMAIN d THEN d[price] ELSE 0) + quantity
            ELSE d[x]]
    ELSE [x \in DOMAIN d \ {price} |-> d[x]]

\* One iteration of update()'s loops: dict[price] = quantity, or dict.pop(price, None).
ApplyDelta(d, price, quantity) ==
  IF quantity > 0
    THEN [x \in DOMAIN d \cup {price} |-> IF x = price THEN quantity ELSE d[x]]
    ELSE [x \in DOMAIN d \ {price} |-> d[x]]

\* The loop over one side's deltas, in list order.
RECURSIVE ApplyDeltas(_, _)
ApplyDeltas(d, deltas) ==
  IF deltas = <<>> THEN d
  ELSE ApplyDeltas(ApplyDelta(d, Head(deltas)[1], Head(deltas)[2]), Tail(deltas))

Min(S) == CHOOSE x \in S : \A y \in S : x <= y
Max(S) == CHOOSE x \in S : \A y \in S : x >= y

\* sorted(dict.items()) / sorted(dict.items(), reverse=True) as [price, qty] pairs.
RECURSIVE SortedItems(_, _, _)
SortedItems(d, keys, reverse) ==
  IF keys = {} THEN <<>>
  ELSE LET k == IF reverse THEN Max(keys) ELSE Min(keys)
       IN <<<<k, d[k]>>>> \o SortedItems(d, keys \ {k}, reverse)

\* A mutation of Truncate: the depth limit is not applied.
TruncateNever(levels, max_depth) == levels

\* levels[:max_depth] when len(levels) > max_depth
Truncate(levels, max_depth) ==
  IF Len(levels) > max_depth THEN SubSeq(levels, 1, max_depth) ELSE levels

\* OrderBook._rebuild_arrays
RebuildArrays(b) ==
  [b EXCEPT
     !.asks = Truncate(SortedItems(b.ask_dict, DOMAIN b.ask_dict, FALSE), b.max_depth),
     !.bids = Truncate(SortedItems(b.bid_dict, DOMAIN b.bid_dict, TRUE), b.max_depth)]

\* sum(qty for price, qty in levels if keep(price)); prices are compared after
\* scaling by 200 so that mid * 1.01 and mid * 0.99 stay integers.
RECURSIVE AskDepth(_, _)
AskDepth(levels, mid2) ==
  IF levels = <<>> THEN 0
  ELSE (IF 200 * Head(levels)[1] <= 101 * mid2 THEN Head(levels)[2] ELSE 0)
       + AskDepth(Tail(levels), mid2)

RECURSIVE BidDepth(_, _)
BidDepth(levels, mid2) ==
  IF levels = <<>> THEN 0
  ELSE (IF 200 * Head(levels)[1] >= 99 * mid2 THEN Head(levels)[2] ELSE 0)
       + BidDepth(Tail(levels), mid2)

max_history == 1000

\* A mutation of LastN: the first n entries are kept.
FirstN(s, n) == IF Len(s) > n THEN SubSeq(s, 1, n) ELSE s

\* s[-n:]
LastN(s, n) == IF Len(s) > n THEN SubSeq(s, Len(s) - n + 1, Len(s)) ELSE s

\* OrderBook._update_statistics.  Floats are kept as exact fractions num/den:
\* mid = (ask + bid) / 2, spread_bps = (ask - bid) / mid * 10000.
UpdateStatistics(b) ==
  IF b.asks = <<>> \/ b.bids = <<>> THEN b
  ELSE LET best_ask == b.asks[1][1]
           best_bid == b.bids[1][1]
           mid2 == best_ask + best_bid
           mid_price == [num |-> mid2, den |-> 2]
           spread_bps == [num |-> (best_ask - best_bid) * 20000, den |-> mid2]
           ask_depth == AskDepth(b.asks, mid2)
           bid_depth == BidDepth(b.bids, mid2)
           m == Append(b.mid_price_history, mid_price)
           s == Append(b.spread_history, spread_bps)
           dh == Append(b.depth_history, <<ask_depth, bid_depth>>)
       IN IF Len(m) > max_history
            THEN [b EXCEPT !.mid_price_history = LastN(m, max_history),
                           !.spread_history = LastN(s, max_history),
                           !.depth_history = LastN(dh, max_history)]
            ELSE [b EXCEPT !.mid_price_history = m,
                           !.spread_history = s,
                           !.depth_history = dh]

\* OrderBook.update, the whole call.
UpdateBook(b, asks, bids, timestamp) ==
  UpdateStatistics(RebuildArrays(
    [b EXCEPT !.timestamp = timestamp,
              !.update_count = @ + 1,
              !.ask_dict = ApplyDeltas(@, asks),
              !.bid_dict = ApplyDeltas(@, bids)]))

\* OrderBook.get_volume_at_price(side, price), side in lower case.
GetVolumeAtPrice(b, side, price) ==
  IF side = "ask"
    THEN IF price \in DOMAIN b.ask_dict THEN b.ask_dict[price] ELSE 0
  ELSE IF side = "bid"
    THEN IF price \in DOMAIN b.bid_dict THEN b.bid_dict[price] ELSE 0
  ELSE 0

\* ------------------------------------------------------------------ Spec

CallIdle == call = None
QueryIdle == query = None

\* A fit of a model: none yet, or the samples of the history it was made from.
NotFitted == [fitted |-> FALSE, first |-> 0, last |-> 0]

\* SlippageModel.__init__ and MakerTakerModel.__init__; refit is what the last call's
\* _update_model did: "skipped", "fitted" or "failed".
NewEstimator == [history |-> <<>>, trained |-> FALSE, fit |-> NotFitted,
                 calls |-> 0, refit |-> "skipped"]
EstIdle == slippage_model = NewEstimator /\ maker_taker_model = NewEstimator

\* The transport thread is not inside _on_open.
NotOpening == [pc |-> "idle", used |-> 0, visited |-> {}]
\* MarketImpactModel.__init__: both coefficients 0.05.
NewImpactModel == [temp_impact_eta |-> [num |-> 1, den |-> 20],
                   perm_impact_gamma |-> [num |-> 1, den |-> 20]]
\* A request thread that is not inside calculate_impact.
NoImpactCall == [pc |-> "idle"]
FrameIdle ==
  /\ on_open = NotOpening
  /\ market_impact_model = NewImpactModel
  /\ impact_calls = <<NoImpactCall, NoImpactCall>>
RaceIdle ==
  /\ upd = [pc |-> "idle", asks |-> <<>>, bids |-> <<>>]
  /\ seen = None

\* OKXWebsocket.__init__
ClientInit ==
  /\ ws = "None"
  /\ ws_thread = "None"
  /\ is_connected = FALSE
  /\ subscriptions = {}
  /\ ping_thread = "None"
  /\ should_reconnect = TRUE
  /\ credentials \in BOOLEAN
  /\ wire = <<>>
  /\ offline_ops = {}

\* The client as app.py constructs it, with both credentials.
ClientIdle == ClientInit /\ credentials = TRUE

\* A field of a feed message as it is on the wire: the decimal string of a number,
\* or a string that is no number.
Str(n) == [kind |-> "num", value |-> n]
Junk == [kind |-> "abc", value |-> 0]

\* A key of a JSON object: present with a value, or absent.
Present(v) == [present |-> TRUE, value |-> v]
Absent == [present |-> FALSE, value |-> <<>>]

\* An OKX level entry [price, size, deprecated, order count].
Level(p, q) == <<Str(p), Str(q), Str(0), Str(1)>>

NoEvent == [symbol |-> "None", asks |-> <<>>, bids |-> <<>>, timestamp |-> 0]
NoFrame ==
  [encoding |-> "None", json |-> "None", event |-> "None", has_data |-> FALSE,
   has_arg |-> FALSE, channel |-> "None", instId |-> "None",
   asks |-> Absent, bids |-> Absent, ts |-> Absent]

\* The request threads that may be inside predict at the same time.
Threads == {1, 2}

NoSamples == [old |-> 0, new |-> [t \in Threads |-> 0]]

\* MakerTakerModel.__init__, no thread in predict.
PredIdle ==
  /\ history = NoSamples
  /\ trained = FALSE
  /\ pc = [t \in Threads |-> "idle"]
  /\ appended = [t \in Threads |-> 0]
  /\ sliced = [t \in Threads |-> NoSamples]
  /\ start_len = 0
  /\ torn_fit = FALSE

\* app.py's globals before start_websocket: no book, the default symbol.
AppInit ==
  /\ current_symbol = "A"
  /\ read_loop = [pc |-> "recv", tick |-> 0, last |-> NoFrame, outcome |-> "None"]
  /\ consumer = NoEvent
  /\ response = [symbol |-> "None", status |-> 0]
  /\ applied = {}
  /\ since_switch = [switched |-> FALSE, events |-> {}]

Init ==
  /\ \E d \in Depths : orderbook = OrderBook("A", d)
  /\ CallIdle /\ RaceIdle /\ ClientIdle /\ AppInit /\ PredIdle /\ QueryIdle /\ EstIdle /\ FrameIdle

\* update(asks, bids, timestamp); the feed's clock ticks once per event.
Update(asks, bids) ==
  /\ orderbook.update_count < MaxUpdates
  /\ orderbook' = UpdateBook(orderbook, asks, bids, orderbook.update_count + 1)
  /\ UNCHANGED <<call, raceVars, outsideBook>>

Next == \E ab \in DeltaArgs : Update(ab[1], ab[2])

Spec == Init /\ [][Next]_vars

\* ------------------------------------------------------------- SpecDelta

\* A full snapshot as the delta list a feed's first message carries.
RECURSIVE SnapshotDeltas(_, _)
SnapshotDeltas(f, keys) ==
  IF keys = {} THEN <<>>
  ELSE LET k == Min(keys) IN <<<<k, f[k]>>>> \o SnapshotDeltas(f, keys \ {k})

\* The book after construction and a first snapshot, with an update() call arriving.
InitDelta ==
  \E d \in Depths, sa \in [Prices -> Qtys], sb \in [Prices -> Qtys], ab \in DeltaArgs :
    /\ orderbook = UpdateBook(OrderBook("A", d), SnapshotDeltas(sa, Prices),
                              SnapshotDeltas(sb, Prices), 1)
    /\ call = [asks |-> ab[1], bids |-> ab[2], state |-> "pending", before |-> None]
    /\ RaceIdle /\ ClientIdle /\ AppInit /\ PredIdle /\ QueryIdle /\ EstIdle /\ FrameIdle

CallUpdate ==
  /\ call # None /\ call.state = "pending"
  /\ orderbook' = UpdateBook(orderbook, call.asks, call.bids, orderbook.update_count + 1)
  /\ call' = [call EXCEPT !.state = "returned", !.before = orderbook]
  /\ UNCHANGED <<raceVars, outsideBook>>

NextDelta == CallUpdate

SpecDelta == InitDelta /\ [][NextDelta]_vars

\* -------------------------------------------------------------- SpecRace
\* update() runs on the feed thread one statement at a time (the interpreter may
\* switch threads between any two of them; nothing in OrderBook takes a lock),
\* while a request thread reads the book.

\* update() is entered: lines 49-50.
UpdEnter(asks, bids) ==
  /\ upd.pc = "idle"
  /\ orderbook.update_count < MaxUpdates
  /\ orderbook' = [orderbook EXCEPT !.timestamp = orderbook.update_count + 1,
                                    !.update_count = @ + 1]
  /\ upd' = [pc |-> "asks", asks |-> asks, bids |-> bids]
  /\ UNCHANGED <<call, seen, outsideBook>>

\* One iteration of the loop over asks (lines 53-58), or its end.
UpdAskDelta ==
  /\ upd.pc = "asks"
  /\ IF upd.asks = <<>>
       THEN /\ upd' = [upd EXCEPT !.pc = "bids"]
            /\ UNCHANGED orderbook
       ELSE /\ orderbook' = [orderbook EXCEPT
                 !.ask_dict = ApplyDelta(@, Head(upd.asks)[1], Head(upd.asks)[2])]
            /\ upd' = [upd EXCEPT !.asks = Tail(@)]
  /\ UNCHANGED <<call, seen, outsideBook>>

\* One iteration of the loop over bids (lines 61-66), or its end.
UpdBidDelta ==
  /\ upd.pc = "bids"
  /\ IF upd.bids = <<>>
       THEN /\ upd' = [upd EXCEPT !.pc = "sort_asks"]
            /\ UNCHANGED orderbook
       ELSE /\ orderbook' = [orderbook EXCEPT
                 !.bid_dict = ApplyDelta(@, Head(upd.bids)[1], Head(upd.bids)[2])]
            /\ upd' = [upd EXCEPT !.bids = Tail(@)]
  /\ UNCHANGED <<call, seen, outsideBook>>

\* Line 81: self.asks = the whole sorted mapping.
UpdSortAsks ==
  /\ upd.pc = "sort_asks"
  /\ orderbook' = [orderbook EXCEPT
       !.asks = SortedItems(orderbook.ask_dict, DOMAIN orderbook.ask_dict, FALSE)]
  /\ upd' = [upd EXCEPT !.pc = "sort_bids"]
  /\ UNCHANGED <<call, seen, outsideBook>>

\* Line 82: self.bids = the whole sorted mapping, best bid first.
UpdSortBids ==
  /\ upd.pc = "sort_bids"
  /\ orderbook' = [orderbook EXCEPT
       !.bids = SortedItems(orderbook.bid_dict, DOMAIN orderbook.bid_dict, TRUE)]
  /\ upd' = [upd EXCEPT !.pc = "cut_asks"]
  /\ UNCHANGED <<call, seen, outsideBook>>

\* Lines 85-86.
UpdCutAsks ==
  /\ upd.pc = "cut_asks"
  /\ orderbook' = [orderbook EXCEPT !.asks = Truncate(@, orderbook.max_depth)]
  /\ upd' = [upd EXCEPT !.pc = "cut_bids"]
  /\ UNCHANGED <<call, seen, outsideBook>>

\* Lines 87-88.
UpdCutBids ==
  /\ upd.pc = "cut_bids"
  /\ orderbook' = [orderbook EXCEPT !.bids = Truncate(@, orderbook.max_depth)]
  /\ upd' = [upd EXCEPT !.pc = "stats"]
  /\ UNCHANGED <<call, seen, outsideBook>>

\* Line 72, and update() returns.
UpdStatistics ==
  /\ upd.pc = "stats"
  /\ orderbook' = UpdateStatistics(orderbook)
  /\ upd' = [upd EXCEPT !.pc = "idle"]
  /\ UNCHANGED <<call, seen, outsideBook>>

\* A query on another thread (get_best_ask / get_best_bid / get_mid_price read the
\* lists, get_volume_at_price reads the mappings) reads the book as it is now.
ReaderObserve ==
  /\ seen' = [asks |-> orderbook.asks, bids |-> orderbook.bids,
              ask_dict |-> orderbook.ask_dict, bid_dict |-> orderbook.bid_dict,
              max_depth |-> orderbook.max_depth, during |-> upd.pc]
  /\ UNCHANGED <<orderbook, call, upd, outsideBook>>

NextRace ==
  \/ \E ab \in DeltaArgs : UpdEnter(ab[1], ab[2])
  \/ UpdAskDelta
  \/ UpdBidDelta
  \/ UpdSortAsks
  \/ UpdSortBids
  \/ UpdCutAsks
  \/ UpdCutBids
  \/ UpdStatistics
  \/ ReaderObserve

SpecRace == Init /\ [][NextRace]_vars

\* -------------------------------------------------------------- SpecFeed
\* The feed client.  The transport (websocket-client's WebSocketApp) is the
\* environment: run_forever() connects, calls on_open, later calls on_close and
\* returns; a WebSocketApp that no thread runs never connects.

Login == [op |-> "login", instId |-> "-"]
SubscribeMsg(symbol) == [op |-> "subscribe", instId |-> symbol]
UnsubscribeMsg(symbol) == [op |-> "unsubscribe", instId |-> symbol]
PingMsg == [op |-> "ping", instId |-> "-"]

ThreadAlive == ws_thread \in {"connecting", "open", "closing"}
\* The socket self.ws.send writes to is open.
SocketOpen == ws = "app" /\ ws_thread = "open"

\* self.ws.send(msg): on a socket that is not open send raises and nothing is sent.
Send(w, msg) == IF SocketOpen THEN Append(w, msg) ELSE w

\* The orders a for loop may visit a set in.
Orders(S) == {f \in [1..Cardinality(S) -> S] : \A i, j \in 1..Cardinality(S) : f[i] = f[j] => i = j}

\* OKXWebsocket.connect
Connect(app) == ws' = app

\* OKXWebsocket.start
Start ==
  /\ IF ThreadAlive
       THEN UNCHANGED <<ws, ws_thread, should_reconnect>>
       ELSE /\ should_reconnect' = TRUE
            /\ Connect("app")
            /\ ws_thread' = "connecting"
  /\ UNCHANGED <<is_connected, subscriptions, ping_thread, credentials, wire, offline_ops>>
  /\ UNCHANGED outsideClient

\* OKXWebsocket._start_ping_thread
StartPingThread == ping_thread' = "running"

\* The messages _on_open sends: login with credentials, then one _subscribe per
\* symbol of the subscription set, in the order the loop visits them.
OnOpenMessages(order) ==
  (IF credentials THEN <<Login>> ELSE <<>>) \o [i \in 1..Len(order) |-> SubscribeMsg(order[i])]

\* The transport connected: OKXWebsocket._on_open.
TransportOpen ==
  /\ ws_thread = "connecting"
  /\ ws_thread' = "open"
  /\ is_connected' = TRUE
  /\ \E order \in Orders(subscriptions) : wire' = OnOpenMessages(order)
  /\ StartPingThread
  /\ UNCHANGED <<ws, subscriptions, should_reconnect, credentials, offline_ops>>
  /\ UNCHANGED outsideClient

\* The transport closed or failed to connect: OKXWebsocket._on_close, after which
\* run_forever returns and ws_thread ends.
TransportClose ==
  /\ ThreadAlive
  /\ is_connected' = FALSE
  /\ IF should_reconnect THEN Connect("spare") ELSE UNCHANGED ws
  /\ ws_thread' = "dead"
  /\ offline_ops' = {}
  /\ UNCHANGED <<subscriptions, ping_thread, should_reconnect, credentials, wire>>
  /\ UNCHANGED outsideClient

\* OKXWebsocket.stop
Stop ==
  /\ should_reconnect' = FALSE
  /\ ws_thread' = IF is_connected /\ ws # "None" /\ SocketOpen THEN "closing" ELSE ws_thread
  /\ UNCHANGED <<ws, is_connected, subscriptions, ping_thread, credentials, wire, offline_ops>>
  /\ UNCHANGED outsideClient

\* A mutation of Subscribe: the message is sent whether or not the client is connected.
SubscribeEager(symbol) ==
  /\ Len(wire) < MaxWire
  /\ subscriptions' = subscriptions \cup {symbol}
  /\ wire' = Append(wire, SubscribeMsg(symbol))
  /\ offline_ops' = IF is_connected THEN offline_ops
                    ELSE offline_ops \cup {<<"subscribe", symbol>>}
  /\ UNCHANGED <<ws, ws_thread, is_connected, ping_thread, should_reconnect, credentials>>
  /\ UNCHANGED outsideClient

\* What subscribe(symbol) makes of the subscription set and of the messages sent.
SubscribeResult(subs, w, symbol) ==
  [subscriptions |-> subs \cup {symbol},
   wire |-> IF is_connected /\ (is_connected /\ ws # "None")
              THEN Send(w, SubscribeMsg(symbol)) ELSE w]

\* subscribe(symbol) ends in the exception of a send on a socket that is not open.
SubscribeRaises(symbol) == is_connected /\ ws # "None" /\ ~SocketOpen

\* OKXWebsocket.subscribe, with _subscribe
Subscribe(symbol) ==
  /\ is_connected => Len(wire) < MaxWire
  /\ subscriptions' = SubscribeResult(subscriptions, wire, symbol).subscriptions
  /\ wire' = SubscribeResult(subscriptions, wire, symbol).wire
  /\ offline_ops' = IF is_connected THEN offline_ops
                    ELSE offline_ops \cup {<<"subscribe", symbol>>}
  /\ UNCHANGED <<ws, ws_thread, is_connected, ping_thread, should_reconnect, credentials>>
  /\ UNCHANGED outsideClient

\* A mutation of UnsubscribeResult: the message is sent for a symbol not in the set too.
UnsubscribeResultAlways(subs, w, symbol) ==
  [subscriptions |-> subs \ {symbol},
   wire |-> IF is_connected /\ ws # "None" THEN Send(w, UnsubscribeMsg(symbol)) ELSE w]

\* What unsubscribe(symbol) makes of the subscription set and of the messages sent.
UnsubscribeResult(subs, w, symbol) ==
  IF symbol \in subs
    THEN [subscriptions |-> subs \ {symbol},
          wire |-> IF is_connected /\ ws # "None"
                     THEN Send(w, UnsubscribeMsg(symbol)) ELSE w]
    ELSE [subscriptions |-> subs, wire |-> w]

\* unsubscribe(symbol) ends in the exception of a send on a socket that is not open.
UnsubscribeRaises(symbol) ==
  symbol \in subscriptions /\ is_connected /\ ws # "None" /\ ~SocketOpen

\* A mutation of Unsubscribe: a disconnected client keeps the symbol.
UnsubscribeConnectedOnly(symbol) ==
  /\ is_connected => Len(wire) < MaxWire
  /\ subscriptions' = IF is_connected THEN subscriptions \ {symbol} ELSE subscriptions
  /\ wire' = IF is_connected /\ symbol \in subscriptions
               THEN Send(wire, UnsubscribeMsg(symbol)) ELSE wire
  /\ offline_ops' = IF is_connected THEN offline_ops
                    ELSE offline_ops \cup {<<"unsubscribe", symbol>>}
  /\ UNCHANGED <<ws, ws_thread, is_connected, ping_thread, should_reconnect, credentials>>
  /\ UNCHANGED outsideClient

\* OKXWebsocket.unsubscribe
Unsubscribe(symbol) ==
  /\ is_connected => Len(wire) < MaxWire
  /\ subscriptions' = UnsubscribeResult(subscriptions, wire, symbol).subscriptions
  /\ wire' = UnsubscribeResult(subscriptions, wire, symbol).wire
  /\ offline_ops' = IF is_connected THEN offline_ops
                    ELSE offline_ops \cup {<<"unsubscribe", symbol>>}
  /\ UNCHANGED <<ws, ws_thread, is_connected, ping_thread, should_reconnect, credentials>>
  /\ UNCHANGED outsideClient

\* OKXWebsocket._ping, one turn of its loop: send a ping while connected (a failed
\* send ends the loop), or see is_connected false and end.
PingLoop ==
  /\ ping_thread = "running"
  /\ is_connected => Len(wire) < MaxWire
  /\ IF is_connected
       THEN /\ wire' = Send(wire, PingMsg)
            /\ ping_thread' = IF SocketOpen THEN "running" ELSE "dead"
       ELSE /\ ping_thread' = "dead"
            /\ UNCHANGED wire
  /\ UNCHANGED <<ws, ws_thread, is_connected, subscriptions, should_reconnect,
                 credentials, offline_ops>>
  /\ UNCHANGED outsideClient

InitFeed ==
  /\ orderbook = None
  /\ CallIdle /\ RaceIdle /\ ClientInit /\ AppInit /\ PredIdle /\ QueryIdle /\ EstIdle /\ FrameIdle

NextFeed ==
  \/ Start
  \/ TransportOpen
  \/ TransportClose
  \/ Stop
  \/ \E symbol \in Symbols : Subscribe(symbol)
  \/ \E symbol \in Symbols : Unsubscribe(symbol)
  \/ PingLoop

SpecFeed == InitFeed /\ [][NextFeed]_vars

\* -------------------------------------------------------------- SpecOpen
\* _on_open statement by statement on the transport thread, while request threads
\* call subscribe() and unsubscribe() and the keep-alive thread runs _ping.

\* The keep-alive thread object exists and has not ended: Thread.is_alive().
\* "exiting" is a thread that left the loop of _ping and has not ended yet.
PingAlive == ping_thread \in {"running", "exiting"}

OpenSteps == {"login", "iter", "next", "ping"}

\* What no statement of _on_open and no turn of _ping changes.
openFixed == <<ws, subscriptions, should_reconnect, credentials, offline_ops>>

\* run_forever connected and calls _on_open: self.is_connected = True.
OpenEnter ==
  /\ ws_thread = "connecting"
  /\ ws_thread' = "open"
  /\ is_connected' = TRUE
  /\ wire' = <<>>
  /\ on_open' = [pc |-> "login", used |-> 0, visited |-> {}]
  /\ UNCHANGED <<openFixed, ping_thread>>
  /\ UNCHANGED <<orderbook, call, raceVars, appVars, predVars, query, estVars,
                 market_impact_model, impact_calls>>

\* if self.api_key and self.api_secret: self._login()
OpenLogin ==
  /\ on_open.pc = "login"
  /\ Len(wire) < MaxWire
  /\ wire' = IF credentials THEN Send(wire, Login) ELSE wire
  /\ on_open' = [on_open EXCEPT !.pc = "iter"]
  /\ UNCHANGED <<openFixed, ws_thread, is_connected, ping_thread>>
  /\ UNCHANGED <<orderbook, call, raceVars, appVars, predVars, query, estVars,
                 market_impact_model, impact_calls>>

\* for symbol in self.subscriptions: the set iterator is made and notes the size
\* of the set.
OpenIter ==
  /\ on_open.pc = "iter"
  /\ on_open' = [pc |-> "next", used |-> Cardinality(subscriptions), visited |-> {}]
  /\ UNCHANGED <<openFixed, ws_thread, is_connected, ping_thread, wire>>
  /\ UNCHANGED <<orderbook, call, raceVars, appVars, predVars, query, estVars,
                 market_impact_model, impact_calls>>

\* The turn of the loop that visits symbol: self._subscribe(symbol).
OpenVisit(symbol) ==
  /\ wire' = IF is_connected /\ ws # "None" THEN Send(wire, SubscribeMsg(symbol)) ELSE wire
  /\ on_open' = [on_open EXCEPT !.visited = @ \cup {symbol}]

\* The loop is over: the handler goes on to _start_ping_thread.
OpenLoopEnd ==
  /\ on_open' = [on_open EXCEPT !.pc = "ping"]
  /\ UNCHANGED wire

\* The iterator's next(): RuntimeError when the size of the set is not the size
\* noted, which ends the handler; otherwise a symbol not visited yet, or the end
\* of the loop.  Where a symbol added since the iterator was made lands, before
\* or behind the iterator's position, depends on its hash.
OpenNext ==
  /\ on_open.pc = "next"
  /\ Len(wire) < MaxWire
  /\ IF Cardinality(subscriptions) # on_open.used
       THEN /\ on_open' = [on_open EXCEPT !.pc = "raised"]
            /\ UNCHANGED wire
       ELSE IF subscriptions \ on_open.visited = {}
         THEN OpenLoopEnd
         ELSE \/ \E symbol \in subscriptions \ on_open.visited : OpenVisit(symbol)
              \/ /\ ~(on_open.visited \subseteq subscriptions)
                 /\ OpenLoopEnd
  /\ UNCHANGED <<openFixed, ws_thread, is_connected, ping_thread>>
  /\ UNCHANGED <<orderbook, call, raceVars, appVars, predVars, query, estVars,
                 market_impact_model, impact_calls>>

\* _start_ping_thread: nothing when the thread object is alive, else a new thread.
OpenStartPing ==
  /\ on_open.pc = "ping"
  /\ ping_thread' = IF PingAlive THEN ping_thread ELSE "running"
  /\ on_open' = [on_open EXCEPT !.pc = "done"]
  /\ UNCHANGED <<openFixed, ws_thread, is_connected, wire>>
  /\ UNCHANGED <<orderbook, call, raceVars, appVars, predVars, query, estVars,
                 market_impact_model, impact_calls>>

\* _on_close, called by the transport thread when it is not inside _on_open.
CloseOutsideOpen ==
  /\ on_open.pc \notin OpenSteps
  /\ TransportClose

\* One turn of the loop of _ping: a ping is sent and the thread sleeps, or the
\* loop is left because is_connected is false or the send raised.
PingTurn ==
  /\ ping_thread = "running"
  /\ is_connected => Len(wire) < MaxWire
  /\ IF is_connected
       THEN /\ wire' = Send(wire, PingMsg)
            /\ ping_thread' = IF SocketOpen THEN "running" ELSE "exiting"
       ELSE /\ ping_thread' = "exiting"
            /\ UNCHANGED wire
  /\ UNCHANGED <<openFixed, ws_thread, is_connected, on_open>>
  /\ UNCHANGED <<orderbook, call, raceVars, appVars, predVars, query, estVars,
                 market_impact_model, impact_calls>>

\* The keep-alive thread ends after _ping returned.
PingExit ==
  /\ ping_thread = "exiting"
  /\ ping_thread' = "dead"
  /\ UNCHANGED <<openFixed, ws_thread, is_connected, wire, on_open>>
  /\ UNCHANGED <<orderbook, call, raceVars, appVars, predVars, query, estVars,
                 market_impact_model, impact_calls>>

NextOpen ==
  \/ Start
  \/ OpenEnter
  \/ OpenLogin
  \/ OpenIter
  \/ OpenNext
  \/ OpenStartPing
  \/ CloseOutsideOpen
  \/ \E symbol \in Symbols : Subscribe(symbol)
  \/ \E symbol \in Symbols : Unsubscribe(symbol)
  \/ PingTurn
  \/ PingExit

SpecOpen == InitFeed /\ [][NextOpen]_vars

\* --------------------------------------------------------------- SpecApp
\* The application: start_websocket, the frames the exchange sends on the open
\* connection, the consumer callback, switch_symbol and estimate_trade.

DefaultMaxDepth == 100
\* The server's timestamp of an event, and the local clock when there is none.
ServerTs == 7
LocalNow == 9

BookChannels == {"books", "books5", "books-l2-tbt"}

\* A data frame {arg: {channel, instId}, data: [{asks, bids, ts}]} sent as text.
DataFrame(channel, instId, asks, bids, ts) ==
  [encoding |-> "text", json |-> "ok", event |-> "None", has_data |-> TRUE,
   has_arg |-> TRUE, channel |-> channel, instId |-> instId,
   asks |-> asks, bids |-> bids, ts |-> ts]

GoodAsks == {<<>>, <<Level(2, 1)>>, <<Level(2, 0)>>}
GoodBids == {<<>>, <<Level(1, 1)>>}

\* Well-formed book events.
GoodFrames ==
  {DataFrame("books", sym, Present(a), Present(b), Present(Str(ServerTs))) :
     sym \in Symbols, a \in GoodAsks, b \in GoodBids}
  \cup {[DataFrame("books", "A", Present(<<Level(2, 2)>>), Present(<<>>), Present(Str(ServerTs)))
           EXCEPT !.encoding = "deflate"]}
  \cup {DataFrame(ch, "A", Present(<<Level(2, 2)>>), Present(<<>>), Present(Str(ServerTs))) :
          ch \in {"books5", "books-l2-tbt"}}

\* Frames the client has to drop: a binary frame that does not inflate, text that is
\* no JSON, a data event without arg, with a field that is no number, or with a
\* level entry of one field.
BrokenFrames ==
  {[NoFrame EXCEPT !.encoding = "corrupt"],
   [NoFrame EXCEPT !.encoding = "text", !.json = "garbage"],
   [DataFrame("books", "A", Present(<<Level(2, 1)>>), Present(<<>>), Present(Str(ServerTs)))
      EXCEPT !.has_arg = FALSE],
   DataFrame("books", "A", Present(<<<<Junk, Str(1)>>>>), Present(<<>>), Present(Str(ServerTs))),
   DataFrame("books", "A", Present(<<Level(2, 1)>>), Present(<<<<Str(1), Junk>>>>), Present(Str(ServerTs))),
   DataFrame("books", "A", Present(<<Level(2, 1)>>), Present(<<<<Str(1)>>>>), Present(Str(ServerTs))),
   DataFrame("books", "A", Present(<<Level(2, 1)>>), Present(<<>>), Present(Junk))}

\* Data events with a key left out.
PartialFrames ==
  {DataFrame("books", "A", Absent, Present(<<Level(1, 2)>>), Present(Str(ServerTs))),
   DataFrame("books", "A", Present(<<Level(2, 2)>>), Absent, Present(Str(ServerTs))),
   DataFrame("books", "A", Present(<<Level(2, 2)>>), Present(<<>>), Absent)}

\* Control events, data on another channel, a data event with an empty array.
OtherFrames ==
  {[NoFrame EXCEPT !.encoding = "text", !.json = "ok", !.event = "subscribe",
                   !.has_arg = TRUE, !.channel = "books", !.instId = "A"],
   [NoFrame EXCEPT !.encoding = "text", !.json = "ok", !.event = "error"],
   DataFrame("trades", "A", Present(<<Level(2, 1)>>), Present(<<>>), Present(Str(ServerTs))),
   [DataFrame("books", "A", Absent, Absent, Absent) EXCEPT !.has_data = FALSE]}

Frames == GoodFrames \cup BrokenFrames \cup PartialFrames \cup OtherFrames

\* A mutation of Float: a string that is no number is read as 0.
FloatLenient(x) == [ok |-> TRUE, value |-> x.value]

\* float(x) / int(x) of a string: the number, or ValueError.
Float(x) == IF x.kind = "num" THEN [ok |-> TRUE, value |-> x.value]
            ELSE [ok |-> FALSE, value |-> 0]

\* [[float(price), float(qty)] for price, qty, *_ in data.get(side, [])]
ParseSide(field) ==
  LET entries == IF field.present THEN field.value ELSE <<>>
  IN IF \A i \in 1..Len(entries) :
          /\ Len(entries[i]) >= 2
          /\ Float(entries[i][1]).ok
          /\ Float(entries[i][2]).ok
       THEN [ok |-> TRUE,
             levels |-> [i \in 1..Len(entries) |->
                           <<Float(entries[i][1]).value, Float(entries[i][2]).value>>]]
       ELSE [ok |-> FALSE, levels |-> <<>>]

\* int(data.get('ts', time.time() * 1000))
ParseTs(field) == IF field.present THEN Float(field.value) ELSE [ok |-> TRUE, value |-> LocalNow]

\* OKXWebsocket._process_orderbook: the event handed to the callback, or the
\* exception that leaves before the callback is called.
ProcessOrderbook(symbol, f) ==
  LET asks == ParseSide(f.asks)
      bids == ParseSide(f.bids)
      timestamp == ParseTs(f.ts)
  IN IF asks.ok /\ bids.ok /\ timestamp.ok
       THEN [outcome |-> "callback",
             event |-> [symbol |-> symbol, asks |-> asks.levels, bids |-> bids.levels,
                        timestamp |-> timestamp.value]]
       ELSE [outcome |-> "caught", event |-> NoEvent]

\* A mutation of OnMessageResult: data on any channel is processed.
OnMessageResultAnyChannel(f) ==
  IF f.encoding = "corrupt" THEN [outcome |-> "raised", event |-> NoEvent]
  ELSE IF f.json # "ok" THEN [outcome |-> "raised", event |-> NoEvent]
  ELSE IF f.event # "None" THEN [outcome |-> "logged", event |-> NoEvent]
  ELSE IF f.has_data
    THEN IF ~f.has_arg THEN [outcome |-> "caught", event |-> NoEvent]
         ELSE ProcessOrderbook(f.instId, f)
  ELSE [outcome |-> "ignored", event |-> NoEvent]

\* OKXWebsocket._on_message.  "raised": the exception leaves the handler (the
\* transport logs it, calls on_error and reads on); "caught": logged by the
\* handler's own except clause.
OnMessageResult(f) ==
  IF f.encoding = "corrupt" THEN [outcome |-> "raised", event |-> NoEvent]
  ELSE IF f.json # "ok" THEN [outcome |-> "raised", event |-> NoEvent]
  ELSE IF f.event # "None" THEN [outcome |-> "logged", event |-> NoEvent]
  ELSE IF f.has_data
    THEN IF ~f.has_arg THEN [outcome |-> "caught", event |-> NoEvent]
         ELSE IF f.channel \in BookChannels THEN ProcessOrderbook(f.instId, f)
         ELSE [outcome |-> "ignored", event |-> NoEvent]
  ELSE [outcome |-> "ignored", event |-> NoEvent]

\* start_websocket: the client is constructed, subscribe(current_symbol) adds the
\* symbol while disconnected, start() connects and starts the thread.
StartWebsocket ==
  /\ ws_thread = "None"
  /\ subscriptions' = subscriptions \cup {current_symbol}
  /\ offline_ops' = offline_ops \cup {<<"subscribe", current_symbol>>}
  /\ should_reconnect' = TRUE
  /\ Connect("app")
  /\ ws_thread' = "connecting"
  /\ UNCHANGED <<is_connected, ping_thread, credentials, wire>>
  /\ UNCHANGED <<orderbook, appVars, outsideApp>>

\* The exchange sends data for an instrument a subscribe message named on this
\* connection (also after its unsubscribe: an event already on its way).
MaySend(f) ==
  (f.has_data /\ f.has_arg) => \E i \in 1..Len(wire) : wire[i] = SubscribeMsg(f.instId)

\* The read loop takes a frame and runs _on_message; with an event it enters the
\* callback, which runs on the read loop's own thread.
OnMessage(f) ==
  /\ ws_thread = "open"
  /\ read_loop.pc = "recv"
  /\ MaySend(f)
  /\ orderbook # None => orderbook.update_count < MaxUpdates
  /\ LET r == OnMessageResult(f)
     IN /\ read_loop' = [pc |-> IF r.outcome = "callback" THEN "in_callback" ELSE "recv",
                         tick |-> 1 - read_loop.tick, last |-> f, outcome |-> r.outcome]
        /\ consumer' = r.event
  /\ UNCHANGED <<current_symbol, response, applied, since_switch>>
  /\ UNCHANGED <<orderbook, clientVars, outsideApp>>

\* process_orderbook_update: the book is created on the first event only, and every
\* event updates it; then the callback returns to the read loop.
ProcessOrderbookUpdate ==
  /\ read_loop.pc = "in_callback"
  /\ LET book == IF orderbook = None THEN OrderBook(consumer.symbol, DefaultMaxDepth)
                 ELSE orderbook
     IN /\ orderbook' = UpdateBook(book, consumer.asks, consumer.bids, consumer.timestamp)
        /\ applied' = applied \cup {consumer.symbol}
  /\ since_switch' = [since_switch EXCEPT !.events = @ \cup {consumer.symbol}]
  /\ read_loop' = [read_loop EXCEPT !.pc = "recv"]
  /\ consumer' = NoEvent
  /\ UNCHANGED <<current_symbol, response>>
  /\ UNCHANGED <<clientVars, outsideApp>>

\* switch_symbol: unsubscribe(current_symbol), subscribe(symbol); the book is kept.
SwitchSymbol(symbol) ==
  /\ is_connected => Len(wire) + 2 <= MaxWire
  /\ IF ws_thread # "None" /\ current_symbol # symbol
       THEN LET had == current_symbol \in subscriptions
                w1 == IF had /\ is_connected /\ ws # "None"
                        THEN Send(wire, UnsubscribeMsg(current_symbol)) ELSE wire
                w2 == IF is_connected /\ ws # "None"
                        THEN Send(w1, SubscribeMsg(symbol)) ELSE w1
            IN /\ subscriptions' = (subscriptions \ {current_symbol}) \cup {symbol}
               /\ wire' = w2
               /\ offline_ops' = IF is_connected THEN offline_ops
                                 ELSE offline_ops \cup {<<"unsubscribe", current_symbol>>,
                                                        <<"subscribe", symbol>>}
               /\ current_symbol' = symbol
               /\ since_switch' = [switched |-> TRUE, events |-> {}]
       ELSE UNCHANGED <<subscriptions, wire, offline_ops, current_symbol, since_switch>>
  /\ UNCHANGED <<ws, ws_thread, is_connected, ping_thread, should_reconnect, credentials>>
  /\ UNCHANGED <<read_loop, consumer, response, applied>>
  /\ UNCHANGED <<orderbook, outsideApp>>

\* estimate_trade's first check: 400 without a book of the requested symbol.
EstimateStatus(symbol) ==
  IF orderbook = None \/ orderbook.symbol # symbol THEN 400 ELSE 200

\* estimate_trade, up to the availability check that decides error or quote.
EstimateTrade(symbol) ==
  /\ response' = [symbol |-> symbol, status |-> EstimateStatus(symbol)]
  /\ UNCHANGED <<current_symbol, read_loop, consumer, applied, since_switch>>
  /\ UNCHANGED <<orderbook, clientVars, outsideApp>>

InitApp ==
  /\ orderbook = None
  /\ CallIdle /\ RaceIdle /\ ClientIdle /\ AppInit /\ PredIdle /\ QueryIdle /\ EstIdle /\ FrameIdle

NextApp ==
  \/ StartWebsocket
  \/ TransportOpen
  \/ \E f \in Frames : OnMessage(f)
  \/ ProcessOrderbookUpdate
  \/ \E symbol \in Symbols : SwitchSymbol(symbol)
  \/ \E symbol \in Symbols : EstimateTrade(symbol)

SpecApp == InitApp /\ [][NextApp]_vars

\* ----------------------------------------------------------- SpecPredict
\* Two requests of the threaded server inside MakerTakerModel.predict on the one
\* global estimator, a step per statement of _update_model.  The history is kept
\* as counts: the samples from before the calls, which are its oldest, and the
\* samples each thread appended.

num_samples == 10
history_cap == 1000
fit_threshold == 50

\* History lengths calls made one after the other leave.
StartLens == {0, 40, 990, 1000}

HistLen(h) == h.old + h.new[1] + h.new[2]

\* h[-history_cap:]: the oldest samples go; they are samples from before the calls.
LastSamples(h) ==
  IF HistLen(h) > history_cap THEN [h EXCEPT !.old = @ - (HistLen(h) - history_cap)] ELSE h

\* The call has begun to change self.history and has not finished.
Modifying(t) ==
  \/ pc[t] = "append" /\ appended[t] > 0
  \/ pc[t] \in {"trim", "store"}

\* predict up to the call of _update_model.
PredictBegin(t) ==
  /\ pc[t] = "idle"
  /\ pc' = [pc EXCEPT ![t] = "append"]
  /\ UNCHANGED <<history, trained, appended, sliced, start_len, torn_fit>>
  /\ UNCHANGED outsidePred

\* One turn of the loop: self.history.append(...).
AppendSample(t) ==
  /\ pc[t] = "append"
  /\ history' = [history EXCEPT !.new[t] = @ + 1]
  /\ appended' = [appended EXCEPT ![t] = @ + 1]
  /\ pc' = [pc EXCEPT ![t] = IF appended[t] + 1 = num_samples THEN "check" ELSE "append"]
  /\ UNCHANGED <<trained, sliced, start_len, torn_fit>>
  /\ UNCHANGED outsidePred

\* if len(self.history) > 1000
CheckLen(t) ==
  /\ pc[t] = "check"
  /\ pc' = [pc EXCEPT ![t] = IF HistLen(history) > history_cap THEN "trim" ELSE "refit"]
  /\ UNCHANGED <<history, trained, appended, sliced, start_len, torn_fit>>
  /\ UNCHANGED outsidePred

\* The right-hand side self.history[-1000:] is evaluated: a new list.
TrimSlice(t) ==
  /\ pc[t] = "trim"
  /\ sliced' = [sliced EXCEPT ![t] = LastSamples(history)]
  /\ pc' = [pc EXCEPT ![t] = "store"]
  /\ UNCHANGED <<history, trained, appended, start_len, torn_fit>>
  /\ UNCHANGED outsidePred

\* self.history = <the new list>
TrimStore(t) ==
  /\ pc[t] = "store"
  /\ history' = sliced[t]
  /\ pc' = [pc EXCEPT ![t] = "refit"]
  /\ UNCHANGED <<trained, appended, sliced, start_len, torn_fit>>
  /\ UNCHANGED outsidePred

\* if len(self.history) >= 50: the model is fitted on the history as it is now.
Refit(t) ==
  /\ pc[t] = "refit"
  /\ IF HistLen(history) >= fit_threshold
       THEN /\ trained' = TRUE
            /\ torn_fit' = (torn_fit \/ \E u \in Threads \ {t} : Modifying(u))
       ELSE UNCHANGED <<trained, torn_fit>>
  /\ pc' = [pc EXCEPT ![t] = "done"]
  /\ UNCHANGED <<history, appended, sliced, start_len>>
  /\ UNCHANGED outsidePred

InitPredict ==
  /\ \E d \in Depths : orderbook = OrderBook("A", d)
  /\ CallIdle /\ RaceIdle /\ ClientIdle /\ AppInit /\ QueryIdle /\ EstIdle /\ FrameIdle
  /\ \E n \in StartLens :
       /\ history = [NoSamples EXCEPT !.old = n]
       /\ start_len = n
       /\ trained = (n >= fit_threshold)
  /\ pc = [t \in Threads |-> "idle"]
  /\ appended = [t \in Threads |-> 0]
  /\ sliced = [t \in Threads |-> NoSamples]
  /\ torn_fit = FALSE

NextPredict ==
  \E t \in Threads :
    \/ PredictBegin(t)
    \/ AppendSample(t)
    \/ CheckLen(t)
    \/ TrimSlice(t)
    \/ TrimStore(t)
    \/ Refit(t)

SpecPredict == InitPredict /\ [][NextPredict]_vars

\* ------------------------------------------------------------- SpecQuery
\* The read methods of the book, called on a book that holds a snapshot.  Floats
\* are exact fractions [num, den]; Python's None is None.

\* The quantities a book walk is asked for.
WalkQtys == 0..5
Sides == {"buy", "sell"}

\* get_best_ask()[0] / get_best_bid()[0] is a price that counts as true: the side
\* has a level and its best price is not 0.
HasBestPrice(levels) == levels # <<>> /\ levels[1][1] # 0

\* A mutation of GetMidPriceResult: a missing best price counts as 0.
GetMidPriceResultZero(b) ==
  [num |-> (IF b.asks # <<>> THEN b.asks[1][1] ELSE 0)
             + (IF b.bids # <<>> THEN b.bids[1][1] ELSE 0),
   den |-> 2]

\* OrderBook.get_mid_price
GetMidPriceResult(b) ==
  IF HasBestPrice(b.asks) /\ HasBestPrice(b.bids)
    THEN [num |-> b.asks[1][1] + b.bids[1][1], den |-> 2]
    ELSE None

\* OrderBook.get_spread
GetSpreadResult(b) ==
  IF HasBestPrice(b.asks) /\ HasBestPrice(b.bids)
    THEN [num |-> (b.asks[1][1] - b.bids[1][1]) * 20000,
          den |-> b.asks[1][1] + b.bids[1][1]]
    ELSE None

\* A mutation of WalkLevels: the whole level is taken, whatever remains to fill.
RECURSIVE WalkWholeLevels(_, _, _, _)
WalkWholeLevels(levels, remaining_qty, total_cost, executed_qty) ==
  IF levels = <<>> \/ remaining_qty <= 0
    THEN [total_cost |-> total_cost, executed_qty |-> executed_qty]
    ELSE WalkWholeLevels(Tail(levels), remaining_qty - Head(levels)[2],
                         total_cost + Head(levels)[2] * Head(levels)[1],
                         executed_qty + Head(levels)[2])

\* The loop of calculate_market_impact over the levels, best first.
RECURSIVE WalkLevels(_, _, _, _)
WalkLevels(levels, remaining_qty, total_cost, executed_qty) ==
  IF levels = <<>> \/ remaining_qty <= 0
    THEN [total_cost |-> total_cost, executed_qty |-> executed_qty]
    ELSE LET price == Head(levels)[1]
             level_qty == Head(levels)[2]
             executable_qty == IF remaining_qty < level_qty THEN remaining_qty ELSE level_qty
         IN WalkLevels(Tail(levels), remaining_qty - executable_qty,
                       total_cost + executable_qty * price,
                       executed_qty + executable_qty)

\* A mutation of MarketImpactResult: with nothing executed the average price is 0.
MarketImpactResultZeroPrice(b, side, quantity) ==
  LET levels == IF side = "buy" THEN b.asks ELSE b.bids
      w == WalkLevels(levels, quantity, 0, 0)
  IN [avg_price |-> [num |-> w.total_cost, den |-> 1],
      impact_bps |-> [num |-> 0, den |-> 1], executed_qty |-> w.executed_qty]

\* OrderBook.calculate_market_impact: (avg_price, impact_bps, executed_qty).
MarketImpactResult(b, side, quantity) ==
  LET levels == IF side = "buy" THEN b.asks ELSE b.bids
      w == WalkLevels(levels, quantity, 0, 0)
      mid_price == GetMidPriceResult(b)
  IN IF w.executed_qty > 0
       THEN [avg_price |-> [num |-> w.total_cost, den |-> w.executed_qty],
             impact_bps |->
               IF mid_price # None
                 THEN IF side = "buy"
                        THEN [num |-> (2 * w.total_cost - w.executed_qty * mid_price.num) * 10000,
                              den |-> w.executed_qty * mid_price.num]
                        ELSE [num |-> (w.executed_qty * mid_price.num - 2 * w.total_cost) * 10000,
                              den |-> 2 * w.total_cost]
                 ELSE [num |-> 0, den |-> 1],
             executed_qty |-> w.executed_qty]
       ELSE [avg_price |-> None, impact_bps |-> [num |-> 0, den |-> 1], executed_qty |-> 0]

CalculateMarketImpact(side, quantity) ==
  /\ query' = [op |-> "calculate_market_impact", side |-> side, quantity |-> quantity,
               result |-> MarketImpactResult(orderbook, side, quantity)]
  /\ UNCHANGED outsideQuery

GetMidPrice ==
  /\ query' = [op |-> "get_mid_price", side |-> "-", quantity |-> 0,
               result |-> GetMidPriceResult(orderbook)]
  /\ UNCHANGED outsideQuery

GetSpread ==
  /\ query' = [op |-> "get_spread", side |-> "-", quantity |-> 0,
               result |-> GetSpreadResult(orderbook)]
  /\ UNCHANGED outsideQuery

\* The book after construction and a first snapshot, no call made yet.
InitQuery ==
  /\ \E d \in Depths, sa \in [Prices -> Qtys], sb \in [Prices -> Qtys] :
       orderbook = UpdateBook(OrderBook("A", d), SnapshotDeltas(sa, Prices),
                              SnapshotDeltas(sb, Prices), 1)
  /\ CallIdle /\ RaceIdle /\ ClientIdle /\ AppInit /\ PredIdle /\ QueryIdle /\ EstIdle /\ FrameIdle

NextQuery ==
  \/ \E side \in Sides, quantity \in WalkQtys : CalculateMarketImpact(side, quantity)
  \/ GetMidPrice
  \/ GetSpread

SpecQuery == InitQuery /\ [][NextQuery]_vars

\* ------------------------------------------------------------- SpecStats
\* update() on a book that has been updated many times: its rolling statistics
\* hold the entry of its first update and then one entry per later update.

MaxAppends == 3

\* The numbers of updates with both sides non-empty the book has had.
StatsStarts == {1, 2, max_history - 1, max_history}

\* The (asks, bids) arguments of the updates that follow.
StatsArgs ==
  {<<<<>>, <<>>>>,
   <<<<<<2, 2>>>>, <<>>>>,
   <<<<<<2, 0>>>>, <<>>>>,
   <<<<>>, <<<<1, 2>>>>>>,
   <<<<<<3, 1>>>>, <<<<1, 0>>>>>>}

\* The book after its first update, and after the second, which changed the best ask.
FirstBook == UpdateBook(OrderBook("A", DefaultMaxDepth), <<<<3, 1>>>>, <<<<1, 1>>>>, 1)
SecondBook == UpdateBook(FirstBook, <<<<2, 1>>>>, <<>>, 2)

\* s, then its last entry again until there are n entries.
Repeated(s, n) == [i \in 1..n |-> IF i <= Len(s) THEN s[i] ELSE s[Len(s)]]

\* The book after n updates, all after the second with nothing new in them.
BookAfter(n) ==
  IF n = 1 THEN FirstBook
  ELSE [SecondBook EXCEPT !.update_count = n, !.timestamp = n,
                          !.mid_price_history = Repeated(@, n),
                          !.spread_history = Repeated(@, n),
                          !.depth_history = Repeated(@, n)]

InitStats ==
  /\ \E n \in StatsStarts :
       /\ orderbook = BookAfter(n)
       /\ call = [asks |-> <<>>, bids |-> <<>>, state |-> "returned", before |-> BookAfter(n)]
  /\ RaceIdle /\ ClientIdle /\ AppInit /\ PredIdle /\ QueryIdle /\ EstIdle /\ FrameIdle

\* update(asks, bids, timestamp) on that book.
UpdateLate(asks, bids) ==
  /\ orderbook.update_count < call.before.update_count + MaxAppends
  /\ orderbook' = UpdateBook(orderbook, asks, bids, orderbook.update_count + 1)
  /\ UNCHANGED <<call, raceVars, outsideBook>>

NextStats == \E ab \in StatsArgs : UpdateLate(ab[1], ab[2])

SpecStats == InitStats /\ [][NextStats]_vars

\* ------------------------------------------------------------- SpecImpact
\* MarketImpactModel.calculate_impact on a book.  Floats are exact fractions
\* [num, den] in lowest terms with den > 0, so a result is the value the code
\* computes up to the rounding of its float arithmetic.

RECURSIVE Gcd(_, _)
Gcd(a, b) == IF b = 0 THEN a ELSE Gcd(b, a % b)
Lcm(a, b) == (a \div Gcd(a, b)) * b
Abs(n) == IF n < 0 THEN 0 - n ELSE n

\* The float n / d, d > 0.
Frac(n, d) == LET g == Gcd(Abs(n), d) IN [num |-> n \div g, den |-> d \div g]
Whole(n) == [num |-> n, den |-> 1]

\* x <= y, x + y, x * y and x / y (y > 0) on floats.
Leq(x, y) ==
  LET l == Lcm(x.den, y.den) IN x.num * (l \div x.den) <= y.num * (l \div y.den)
Plus(x, y) ==
  LET l == Lcm(x.den, y.den) IN Frac(x.num * (l \div x.den) + y.num * (l \div y.den), l)
Times(x, y) ==
  LET g1 == Gcd(Abs(x.num), y.den)
      g2 == Gcd(Abs(y.num), x.den)
  IN Frac((x.num \div g1) * (y.num \div g2), (x.den \div g2) * (y.den \div g1))
Over(x, y) == Times(x, [num |-> y.den, den |-> y.num])
FracMin(x, y) == IF Leq(y, x) THEN y ELSE x
FracMax(x, y) == IF Leq(x, y) THEN y ELSE x

\* _calculate_optimal_trajectory's time_steps, time_step_size and the model's
\* risk_aversion.
time_steps == 10
time_step_size == Frac(1, 2)
risk_aversion == Frac(1, 100)

\* The quantities and volatilities calculate_impact is called with.
ImpactQtys == {0, 4, 5, 6, 7, 100, 115}
ImpactVols == {0, 100}

\* The (asks, bids) snapshots of the books it is called on.
ImpactAsks ==
  {<<>>, <<<<201, 1000>>>>, <<<<201, 50>>, <<300, 7>>>>, <<<<202, 1000>>>>}
ImpactBids == {<<>>, <<<<200, 1>>>>, <<<<201, 3>>>>}

\* An exception that leaves the method, or the float it returns.
Raised(line) == [raised |-> TRUE, line |-> line, value |-> None]
Returned(value) == [raised |-> FALSE, line |-> 0, value |-> value]

\* sum(float(size) for _, size in orderbook.asks if float(_) < mid_price * 1.005)
RECURSIVE DepthNearMid(_, _)
DepthNearMid(levels, mid_price) ==
  IF levels = <<>> THEN 0
  ELSE (IF Head(levels)[1] * mid_price.den * 1000 < mid_price.num * 1005
          THEN Head(levels)[2] ELSE 0)
       + DepthNearMid(Tail(levels), mid_price)

\* max(0.01, min(0.1, 0.05 * (1 + k * x)))
Clamped(k, x) ==
  FracMax(Frac(1, 100),
          FracMin(Frac(1, 10), Times(Frac(1, 20), Plus(Whole(1), Times(Whole(k), x)))))

\* _adjust_params_from_orderbook: the new (temp_impact_eta, perm_impact_gamma), or
\* the TypeError of arithmetic on the None that get_mid_price returned: in the
\* depth filter when there are asks, in the spread ratio when there are none.
AdjustParams(b, quantity) ==
  LET mid_price == GetMidPriceResult(b)
  IN IF mid_price = None
       THEN Raised(IF b.asks # <<>> THEN 125 ELSE 132)
       ELSE LET depth == DepthNearMid(b.asks, mid_price)
                relative_size == IF depth > 0 THEN Frac(quantity, depth) ELSE Whole(1)
                spread_ratio == Over(GetSpreadResult(b), mid_price)
            IN [raised |-> FALSE,
                temp_impact_eta |-> Clamped(2, relative_size),
                perm_impact_gamma |-> Clamped(10, spread_ratio)]

\* The three cost terms of one step as integers: the coefficients of n * n,
\* (shares - n) * n and (shares - n) * (shares - n), on their common denominator.
\* alpha and beta are 1, so n * eta * (n / 0.5) ** alpha is (eta / 0.5) * n * n.
CostUnits(eta, gamma, volatility) ==
  LET temp == Over(eta, time_step_size)
      perm == Over(gamma, time_step_size)
      sigma == Times(risk_aversion, Frac(volatility, 100))
      risk == Times(Times(Frac(1, 2), Times(sigma, sigma)), time_step_size)
      l == Lcm(Lcm(temp.den, perm.den), risk.den)
  IN [temp |-> temp.num * (l \div temp.den),
      perm |-> perm.num * (l \div perm.den),
      risk |-> risk.num * (l \div risk.den)]

\* total_cost of executing n of shares at a step before the last.
TotalCost(k, shares, n, next_row) ==
  k.temp * n * n + k.perm * (shares - n) * n + k.risk * (shares - n) * (shares - n)
  + next_row[shares - n + 1].value

\* best_value = float('inf') and best_share_amount = 0 before the loop over n.
NoBest == [inf |-> TRUE, value |-> 0, move |-> 0]

\* The loop over n from n up to shares: total_cost replaces best_value only when
\* it is strictly below it (anything is below the initial infinity).
RECURSIVE BestMoveLoop(_, _, _, _, _)
BestMoveLoop(k, shares, next_row, n, best) ==
  IF n > shares THEN best
  ELSE LET total_cost == TotalCost(k, shares, n, next_row)
       IN IF best.inf \/ total_cost < best.value
          THEN BestMoveLoop(k, shares, next_row, n + 1,
                            [inf |-> FALSE, value |-> total_cost, move |-> n])
          ELSE BestMoveLoop(k, shares, next_row, n + 1, best)

\* The same loop with total_cost <= best_value: the last n at the minimum.
BestMoveLastMinimum(k, shares, next_row) ==
  LET best_value == Min({TotalCost(k, shares, n, next_row) : n \in 0..shares})
  IN [value |-> best_value,
      move |-> Max({n \in 0..shares : TotalCost(k, shares, n, next_row) = best_value})]

\* value_function[t, shares] and best_moves[t, shares] after the loop over n.
BestMove(k, shares, next_row) ==
  LET best == BestMoveLoop(k, shares, next_row, 0, NoBest)
  IN [value |-> best.value, move |-> best.move]

\* value_function[time_steps - 1] and best_moves[time_steps - 1]: liquidate all.
TerminalRow(k, quantity) ==
  [i \in 1..quantity + 1 |-> [value |-> k.temp * (i - 1) * (i - 1), move |-> i - 1]]

\* The loop over shares at one step t: row[shares + 1] for shares in 0..quantity.
RECURSIVE BackwardRow(_, _, _, _)
BackwardRow(k, quantity, next_row, row) ==
  IF Len(row) = quantity + 1 THEN row
  ELSE BackwardRow(k, quantity, next_row, Append(row, BestMove(k, Len(row), next_row)))

\* Backward induction: rows holds the rows of steps t + 1..time_steps - 1, the
\* terminal row last, and the row of step t = time_steps - 1 - Len(rows) is put
\* in front of them, down to step 0.
RECURSIVE BackwardInduction(_, _, _)
BackwardInduction(k, quantity, rows) ==
  IF Len(rows) = time_steps THEN rows
  ELSE BackwardInduction(k, quantity,
                         <<BackwardRow(k, quantity, Head(rows), <<>>)>> \o rows)

\* Forward simulation: one move per step before the last.
RECURSIVE ForwardSimulation(_, _, _)
ForwardSimulation(rows, curr_inventory, optimal_trajectory) ==
  IF Len(optimal_trajectory) = time_steps - 1 THEN optimal_trajectory
  ELSE LET move == rows[Len(optimal_trajectory) + 1][curr_inventory + 1].move
       IN ForwardSimulation(rows, curr_inventory - move, Append(optimal_trajectory, move))

\* _calculate_optimal_trajectory(quantity, volatility): optimal_trajectory.
OptimalTrajectory(quantity, volatility, eta, gamma) ==
  LET shares == quantity.num \div quantity.den
      k == CostUnits(eta, gamma, volatility)
  IN ForwardSimulation(BackwardInduction(k, shares, <<TerminalRow(k, shares)>>),
                       shares, <<>>)

RECURSIVE SumSeq(_)
SumSeq(s) == IF s = <<>> THEN 0 ELSE Head(s) + SumSeq(Tail(s))

\* The sums of the two loops over optimal_trajectory, without eta and gamma.
RECURSIVE TemporarySum(_)
TemporarySum(s) == IF s = <<>> THEN 0 ELSE Head(s) * Head(s) + TemporarySum(Tail(s))
RECURSIVE PermanentSum(_)
PermanentSum(s) == IF s = <<>> THEN 0 ELSE SumSeq(s) * Head(s) + PermanentSum(Tail(s))

\* calculate_impact(orderbook, quantity, volatility).  Nothing in its try block
\* raises for a finite quantity and volatility, so the except branch is not taken.
ImpactResult(b, quantity, volatility) ==
  LET normalized_quantity ==
        FracMin(Whole(1000), FracMax(Whole(10), Frac(quantity, 10)))
      params == AdjustParams(b, quantity)
  IN IF params.raised THEN params
     ELSE LET optimal_trajectory ==
                OptimalTrajectory(normalized_quantity, volatility,
                                  params.temp_impact_eta, params.perm_impact_gamma)
              total_impact ==
                Plus(Times(params.temp_impact_eta, Whole(TemporarySum(optimal_trajectory))),
                     Times(params.perm_impact_gamma, Whole(PermanentSum(optimal_trajectory))))
              impact_percentage ==
                Times(Over(total_impact, normalized_quantity), Frac(quantity, 10000))
          IN Returned(FracMax(Whole(0), FracMin(Frac(1, 10), impact_percentage)))

CalculateImpact(quantity, volatility) ==
  /\ query' = [op |-> "calculate_impact", side |-> "-", quantity |-> quantity,
               volatility |-> volatility,
               result |-> ImpactResult(orderbook, quantity, volatility)]
  /\ UNCHANGED outsideQuery

\* A book after construction and its first snapshot, no call made yet.
InitImpact ==
  /\ \E asks \in ImpactAsks, bids \in ImpactBids :
       orderbook = UpdateBook(OrderBook("A", DefaultMaxDepth), asks, bids, 1)
  /\ CallIdle /\ RaceIdle /\ ClientIdle /\ AppInit /\ PredIdle /\ QueryIdle /\ EstIdle /\ FrameIdle

NextImpact == \E quantity \in ImpactQtys, volatility \in ImpactVols :
                CalculateImpact(quantity, volatility)

SpecImpact == InitImpact /\ [][NextImpact]_vars

\* ------------------------------------------------------- SpecImpactRace
\* Two request threads of the threaded server inside calculate_impact on app.py's
\* one MarketImpactModel: the adjustment of the coefficients, the trajectory and
\* the impact sums are three steps of a call, and each step reads the
\* coefficients the model holds when it runs.

\* The (quantity, volatility) arguments of the concurrent calls.
RaceImpactArgs == {<<4, 0>>, <<100, 0>>, <<115, 100>>}

\* The frame of a call: its arguments, its trajectory once computed, its outcome.
ImpactFrame(pc_, quantity, volatility, optimal_trajectory, result) ==
  [pc |-> pc_, quantity |-> quantity, volatility |-> volatility,
   optimal_trajectory |-> optimal_trajectory, result |-> result]

\* min(1000, max(10, quantity / 10))
NormalizedQuantity(quantity) ==
  FracMin(Whole(1000), FracMax(Whole(10), Frac(quantity, 10)))

\* The impact sums over optimal_trajectory with the coefficients eta and gamma,
\* normalised and capped: what calculate_impact returns.
ImpactOf(quantity, optimal_trajectory, eta, gamma) ==
  LET total_impact ==
        Plus(Times(eta, Whole(TemporarySum(optimal_trajectory))),
             Times(gamma, Whole(PermanentSum(optimal_trajectory))))
      impact_percentage ==
        Times(Over(total_impact, NormalizedQuantity(quantity)), Frac(quantity, 10000))
  IN Returned(FracMax(Whole(0), FracMin(Frac(1, 10), impact_percentage)))

\* _adjust_params_from_orderbook on the model m: both attributes are set; on a book
\* without asks temp_impact_eta is set (relative_size is 1.0) before the spread
\* ratio raises, and on a book with asks only nothing is set before the depth raises.
AdjustInPlace(m, b, quantity) ==
  LET params == AdjustParams(b, quantity)
  IN IF ~params.raised
       THEN [temp_impact_eta |-> params.temp_impact_eta,
             perm_impact_gamma |-> params.perm_impact_gamma]
     ELSE IF params.line = 132
       THEN [m EXCEPT !.temp_impact_eta = Clamped(2, Whole(1))]
     ELSE m

\* A thread calls calculate_impact: normalized_quantity and the adjustment, which
\* is outside the try and ends the call when it raises.
ImpactEnter(t, quantity, volatility) ==
  /\ impact_calls[t].pc \in {"idle", "done"}
  /\ market_impact_model' = AdjustInPlace(market_impact_model, orderbook, quantity)
  /\ LET params == AdjustParams(orderbook, quantity)
     IN impact_calls' =
          [impact_calls EXCEPT ![t] =
             IF params.raised
               THEN ImpactFrame("done", quantity, volatility, <<>>, params)
               ELSE ImpactFrame("trajectory", quantity, volatility, <<>>, None)]
  /\ UNCHANGED <<orderbook, call, raceVars, clientVars, appVars, predVars, query,
                 estVars, on_open>>

\* _calculate_optimal_trajectory with the coefficients the model holds now.
ImpactCalculateTrajectory(t) ==
  /\ impact_calls[t].pc = "trajectory"
  /\ impact_calls' =
       [impact_calls EXCEPT ![t] =
          [@ EXCEPT !.pc = "sums",
                    !.optimal_trajectory =
                      OptimalTrajectory(NormalizedQuantity(impact_calls[t].quantity),
                                        impact_calls[t].volatility,
                                        market_impact_model.temp_impact_eta,
                                        market_impact_model.perm_impact_gamma)]]
  /\ UNCHANGED <<orderbook, call, raceVars, clientVars, appVars, predVars, query,
                 estVars, on_open, market_impact_model>>

\* The two loops over optimal_trajectory and the return, with the coefficients
\* the model holds now.
ImpactSums(t) ==
  /\ impact_calls[t].pc = "sums"
  /\ impact_calls' =
       [impact_calls EXCEPT ![t] =
          [@ EXCEPT !.pc = "done",
                    !.result = ImpactOf(impact_calls[t].quantity,
                                        impact_calls[t].optimal_trajectory,
                                        market_impact_model.temp_impact_eta,
                                        market_impact_model.perm_impact_gamma)]]
  /\ UNCHANGED <<orderbook, call, raceVars, clientVars, appVars, predVars, query,
                 estVars, on_open, market_impact_model>>

\* A book after its first snapshot, the model as constructed, no thread inside.
InitImpactRace == InitImpact

NextImpactRace ==
  \/ \E t \in Threads, a \in RaceImpactArgs : ImpactEnter(t, a[1], a[2])
  \/ \E t \in Threads : ImpactCalculateTrajectory(t)
  \/ \E t \in Threads : ImpactSums(t)

SpecImpactRace == InitImpactRace /\ [][NextImpactRace]_vars

\* ----------------------------------------------------------- SpecSlippage
\* SlippageModel.predict, called again and again on the one estimator of app.py.
\* sklearn's LinearRegression is outside the source: what a fitted model predicts
\* and whether fit or predict raise are inputs of a call.

MaxCalls == 2

history_limit == 1000
min_history == 30

\* The quantities and order types predict is called with.
SlipQtys == {0, 1, 4}
OrderTypes == {"market", "limit"}

\* What linear_model.predict answers, and whether predict and fit raise; features
\* that make predict raise are in the history when fit reads it.
ModelPredictions == {Whole(0), Whole(2)}
Library ==
  {e \in [model_prediction : ModelPredictions, predict_raises : BOOLEAN,
          fit_raises : BOOLEAN] : e.predict_raises => e.fit_raises}

\* The (asks, bids) snapshots of the books it is called on.
SlipAsks == {<<>>, <<<<3, 1>>>>, <<<<2, 1>>, <<3, 2>>>>}
SlipBids == {<<>>, <<<<1, 2>>>>}

\* The numbers of calls the estimator has answered before.
SlipStarts == {0, min_history - 1, history_limit - 1}

\* The loop of _calculate_price_impact over book_side.
RECURSIVE PriceImpactWalk(_, _, _)
PriceImpactWalk(book_side, remaining_qty, executed_value) ==
  IF book_side = <<>>
    THEN [remaining_qty |-> remaining_qty, executed_value |-> executed_value]
    ELSE LET price == Head(book_side)[1]
             size == Head(book_side)[2]
         IN IF size >= remaining_qty
              THEN [remaining_qty |-> 0,
                    executed_value |-> executed_value + remaining_qty * price]
              ELSE PriceImpactWalk(Tail(book_side), remaining_qty - size,
                                   executed_value + size * price)

\* _calculate_price_impact(orderbook, quantity) with its default side "buy": the
\* slippage, or the TypeError of arithmetic on a None mid price (lines 59 and 65),
\* or the ZeroDivisionError of line 62.
CalculatePriceImpact(b, quantity) ==
  LET book_side == b.asks
      w == PriceImpactWalk(book_side, quantity, 0)
      mid_price == GetMidPriceResult(b)
      uses_mid == w.remaining_qty > 0 /\ book_side = <<>>
      executed_value ==
        IF w.remaining_qty > 0
          THEN IF book_side # <<>>
                 THEN Whole(w.executed_value
                            + w.remaining_qty * book_side[Len(book_side)][1])
                 ELSE Plus(Whole(w.executed_value),
                           Times(Whole(w.remaining_qty), mid_price))
          ELSE Whole(w.executed_value)
  IN IF uses_mid /\ mid_price = None THEN Raised(59)
     ELSE IF quantity = 0 THEN Raised(62)
     ELSE IF mid_price = None THEN Raised(65)
     ELSE Returned(Plus(Over(executed_value, Whole(quantity)),
                        Times(Whole(0 - 1), mid_price)))

\* sum(float(size) for _, size in levels[:5])
RECURSIVE TopLiquidity(_, _)
TopLiquidity(levels, n) ==
  IF levels = <<>> \/ n = 0 THEN 0
  ELSE Head(levels)[2] + TopLiquidity(Tail(levels), n - 1)

\* _extract_features(orderbook, quantity)
SlippageFeatures(b, quantity) ==
  LET ask_liquidity == TopLiquidity(b.asks, 5)
      bid_liquidity == TopLiquidity(b.bids, 5)
  IN [bid_ask_spread |-> GetSpreadResult(b),
      book_depth |-> IF Len(b.asks) < Len(b.bids) THEN Len(b.asks) ELSE Len(b.bids),
      liquidity_imbalance |->
        IF bid_liquidity + ask_liquidity > 0
          THEN Frac(bid_liquidity - ask_liquidity, bid_liquidity + ask_liquidity)
          ELSE Whole(0),
      relative_order_size |->
        IF ask_liquidity > 0 THEN Frac(quantity, ask_liquidity) ELSE Whole(1),
      quantity |-> quantity]

\* The fit of a model from the history h: its oldest and its newest sample.
FitFrom(h) == [fitted |-> TRUE, first |-> h[1].id, last |-> h[Len(h)].id]

\* A mutation of SlippageUpdateModel: over the limit the newest sample goes.
SlippageUpdateModelDropNewest(m, features, slippage, lib) ==
  LET grown == Append(m.history,
                      [id |-> m.calls + 1, features |-> features, label |-> slippage])
      kept == IF Len(grown) > history_limit THEN SubSeq(grown, 1, history_limit)
              ELSE grown
      refits == Len(kept) >= min_history
  IN [history |-> kept,
      trained |-> m.trained \/ (refits /\ ~lib.fit_raises),
      fit |-> IF refits /\ ~lib.fit_raises THEN FitFrom(kept) ELSE m.fit,
      calls |-> m.calls + 1,
      refit |-> IF ~refits THEN "skipped"
                ELSE IF lib.fit_raises THEN "failed" ELSE "fitted"]

\* A mutation of SlippageUpdateModel: the model is not refitted.
SlippageUpdateModelNoRefit(m, features, slippage, lib) ==
  LET grown == Append(m.history,
                      [id |-> m.calls + 1, features |-> features, label |-> slippage])
  IN [m EXCEPT !.history = IF Len(grown) > history_limit THEN Tail(grown)
                           ELSE grown,
               !.calls = @ + 1, !.refit = "skipped"]

\* _update_model(features, slippage): the estimator after it.  A sample carries
\* the number of the call that appended it.
SlippageUpdateModel(m, features, slippage, lib) ==
  LET grown == Append(m.history,
                      [id |-> m.calls + 1, features |-> features, label |-> slippage])
      kept == IF Len(grown) > history_limit THEN Tail(grown) ELSE grown
      refits == Len(kept) >= min_history
  IN [history |-> kept,
      trained |-> m.trained \/ (refits /\ ~lib.fit_raises),
      fit |-> IF refits /\ ~lib.fit_raises THEN FitFrom(kept) ELSE m.fit,
      calls |-> m.calls + 1,
      refit |-> IF ~refits THEN "skipped"
                ELSE IF lib.fit_raises THEN "failed" ELSE "fitted"]

\* Lines 135-147 of predict: predicted_slippage, and the fit behind it if it is a
\* blend.
SlippagePrediction(m, immediate_slippage, lib) ==
  IF ~m.trained \/ Len(m.history) < min_history
    THEN [blended |-> FALSE, fit |-> NotFitted, value |-> immediate_slippage]
    ELSE IF lib.predict_raises
      THEN [blended |-> FALSE, fit |-> NotFitted, value |-> immediate_slippage]
      ELSE [blended |-> TRUE, fit |-> m.fit,
            value |-> Plus(Times(Frac(7, 10), lib.model_prediction),
                           Times(Frac(3, 10), immediate_slippage))]

\* A mutation of SlippagePredictResult: an order type other than "market" is
\* refused with an error and leaves the estimator alone.
SlippagePredictMarketOnly(m, b, quantity, order_type, lib) ==
  LET immediate_slippage == CalculatePriceImpact(b, quantity)
  IN IF order_type # "market"
       THEN [model |-> m, result |-> Raised(127), baseline |-> immediate_slippage,
             blended |-> FALSE, fit |-> NotFitted]
     ELSE IF immediate_slippage.raised
       THEN [model |-> m, result |-> immediate_slippage, baseline |-> immediate_slippage,
             blended |-> FALSE, fit |-> NotFitted]
       ELSE LET features == SlippageFeatures(b, quantity)
                p == SlippagePrediction(m, immediate_slippage.value, lib)
            IN [model |-> SlippageUpdateModel(m, features, immediate_slippage.value, lib),
                result |-> Returned(p.value), baseline |-> immediate_slippage,
                blended |-> p.blended, fit |-> p.fit]

\* predict(orderbook, quantity, order_type): the estimator after the call, what the
\* call returned or raised, the baseline, and the fit behind a blended answer.
SlippagePredictResult(m, b, quantity, order_type, lib) ==
  LET immediate_slippage == CalculatePriceImpact(b, quantity)
  IN IF immediate_slippage.raised
       THEN [model |-> m, result |-> immediate_slippage, baseline |-> immediate_slippage,
             blended |-> FALSE, fit |-> NotFitted]
       ELSE LET features == SlippageFeatures(b, quantity)
                p == SlippagePrediction(m, immediate_slippage.value, lib)
            IN [model |-> SlippageUpdateModel(m, features, immediate_slippage.value, lib),
                result |-> Returned(p.value), baseline |-> immediate_slippage,
                blended |-> p.blended, fit |-> p.fit]

SlippagePredict(quantity, order_type, lib) ==
  /\ slippage_model.calls < query.first_call + MaxCalls
  /\ LET r == SlippagePredictResult(slippage_model, orderbook, quantity, order_type, lib)
     IN /\ slippage_model' = r.model
        /\ query' = [op |-> "SlippageModel.predict", first_call |-> query.first_call,
                     quantity |-> quantity, order_type |-> order_type, library |-> lib,
                     result |-> r.result,
                     baseline |-> r.baseline, blended |-> r.blended, fit |-> r.fit]
  /\ UNCHANGED <<orderbook, call, raceVars, clientVars, appVars, predVars,
                 maker_taker_model, frameVars>>

\* The book the earlier calls were made on, and the sample of call i.
EarlierBook == UpdateBook(OrderBook("A", DefaultMaxDepth), <<<<3, 1>>>>, <<<<1, 2>>>>, 1)
EarlierSample(i) ==
  [id |-> i, features |-> SlippageFeatures(EarlierBook, 1),
   label |-> CalculatePriceImpact(EarlierBook, 1).value]

\* The estimator after n calls with quantity 1 on EarlierBook, every fit a success.
SlippageModelAfter(n) ==
  IF n = 0 THEN NewEstimator
  ELSE LET first == IF n > history_limit THEN n - history_limit + 1 ELSE 1
           kept == [i \in 1..(n - first + 1) |-> EarlierSample(first + i - 1)]
       IN [history |-> kept, trained |-> n >= min_history,
           fit |-> IF n >= min_history THEN FitFrom(kept) ELSE NotFitted,
           calls |-> n,
           refit |-> IF n >= min_history THEN "fitted" ELSE "skipped"]

InitSlippage ==
  /\ \E asks \in SlipAsks, bids \in SlipBids :
       orderbook = UpdateBook(OrderBook("A", DefaultMaxDepth), asks, bids, 1)
  /\ \E n \in SlipStarts :
       /\ slippage_model = SlippageModelAfter(n)
       /\ query = [op |-> "none", first_call |-> n]
  /\ maker_taker_model = NewEstimator
  /\ CallIdle /\ RaceIdle /\ ClientIdle /\ AppInit /\ PredIdle /\ FrameIdle

NextSlippage ==
  \E quantity \in SlipQtys, order_type \in OrderTypes, lib \in Library :
    SlippagePredict(quantity, order_type, lib)

SpecSlippage == InitSlippage /\ [][NextSlippage]_vars

\* -------------------------------------------------------------- SpecMaker
\* MakerTakerModel.predict, its calls made one after the other on the one
\* estimator.  sklearn's LogisticRegression is outside the source: fit raises a
\* ValueError when the labels it is given are all of one class or a feature
\* vector is not finite, and predict_proba raises on a feature vector that is not
\* finite; the probability a fitted model answers is an input of a call.

\* The (quantity, volatility) pairs predict is called with.
MakerInputs == {<<1, 0>>, <<4, 30>>}

\* The ten labels np.random.random() < maker_proportion draws in one call.
OnesDrawn == [k \in 1..num_samples |-> 1]
MixedDrawn == [k \in 1..num_samples |-> k % 2]
LabelDraws == {OnesDrawn, MixedDrawn}

\* predict_proba(features)[0][1], and whether sklearn rejects the features.
MakerLibrary == [maker_proba : {Whole(0), Whole(1)}, rejected : BOOLEAN]

\* The (asks, bids) snapshots of the books it is called on.
MakerAsks == {<<>>, <<<<2001, 2>>>>}
MakerBids == {<<>>, <<<<2000, 1>>>>}

\* sum(float(size) for _, size in orderbook.asks if float(_) < mid_price * (1 + bps / 10000))
RECURSIVE DepthWithinBps(_, _, _)
DepthWithinBps(levels, mid_price, bps) ==
  IF levels = <<>> THEN 0
  ELSE (IF Head(levels)[1] * mid_price.den * 10000 < mid_price.num * (10000 + bps)
          THEN Head(levels)[2] ELSE 0)
       + DepthWithinBps(Tail(levels), mid_price, bps)

\* _extract_features(orderbook, quantity, volatility), on a book with a mid price.
MakerFeatures(b, quantity, volatility) ==
  LET mid_price == GetMidPriceResult(b)
      depth_5bps == DepthWithinBps(b.asks, mid_price, 5)
  IN [spread |-> GetSpreadResult(b),
      depth_5bps |-> depth_5bps,
      depth_10bps |-> DepthWithinBps(b.asks, mid_price, 10),
      relative_size |-> IF depth_5bps > 0 THEN Frac(quantity, depth_5bps) ELSE Whole(1),
      norm_volatility |-> FracMin(Frac(volatility, 10), Whole(1))]

\* _simulate_execution(orderbook, quantity, volatility), on a book with a mid price.
SimulateExecution(b, quantity, volatility) ==
  LET mid_price == GetMidPriceResult(b)
      base_maker ==
        FracMax(Whole(0), FracMin(Frac(9, 10),
                                  Plus(Whole(1), Frac(0 - volatility, 15))))
      depth_5bps == DepthWithinBps(b.asks, mid_price, 5)
      relative_size == IF depth_5bps > 0 THEN Frac(quantity, depth_5bps) ELSE Whole(1)
      size_adjustment ==
        FracMax(Whole(0),
                FracMin(Frac(1, 2),
                        Times(Frac(1, 2), Plus(Whole(1), Times(Whole(0 - 1), relative_size)))))
      spread_ratio == Over(GetSpreadResult(b), mid_price)
      spread_adjustment == FracMin(Frac(1, 5), Times(spread_ratio, Whole(100)))
  IN FracMin(Frac(95, 100),
             FracMax(Frac(5, 100),
                     Plus(Plus(base_maker, size_adjustment), spread_adjustment)))

\* The labels of the history are all of one class.
OneClass(h) == \A i \in 1..Len(h) : h[i].label = h[1].label
\* A feature vector of the history is not finite.
HoldsRejected(h) == \E i \in 1..Len(h) : h[i].rejected

\* A mutation of MakerUpdateModel: nine samples are appended.
MakerUpdateModelNine(m, features, labels, lib) ==
  LET grown == m.history \o [k \in 1..num_samples - 1 |->
                               [id |-> m.calls + 1, features |-> features,
                                label |-> labels[k], rejected |-> lib.rejected]]
      kept == LastN(grown, history_cap)
      refits == Len(kept) >= fit_threshold
      fit_raises == OneClass(kept) \/ HoldsRejected(kept)
  IN [history |-> kept,
      trained |-> m.trained \/ (refits /\ ~fit_raises),
      fit |-> IF refits /\ ~fit_raises THEN FitFrom(kept) ELSE m.fit,
      calls |-> m.calls + 1,
      refit |-> IF ~refits THEN "skipped" ELSE IF fit_raises THEN "failed" ELSE "fitted"]

\* _update_model(features, maker_proportion) with the labels it drew: the
\* estimator after it.  A sample carries the number of the call that appended it.
MakerUpdateModel(m, features, labels, lib) ==
  LET grown == m.history \o [k \in 1..num_samples |->
                               [id |-> m.calls + 1, features |-> features,
                                label |-> labels[k], rejected |-> lib.rejected]]
      kept == LastN(grown, history_cap)
      refits == Len(kept) >= fit_threshold
      fit_raises == OneClass(kept) \/ HoldsRejected(kept)
  IN [history |-> kept,
      trained |-> m.trained \/ (refits /\ ~fit_raises),
      fit |-> IF refits /\ ~fit_raises THEN FitFrom(kept) ELSE m.fit,
      calls |-> m.calls + 1,
      refit |-> IF ~refits THEN "skipped" ELSE IF fit_raises THEN "failed" ELSE "fitted"]

\* Lines 135-147 of predict: maker_proportion before the clamp, and the fit behind
\* it if it is a blend.
MakerPrediction(m, simulated_maker, lib) ==
  IF ~m.trained \/ Len(m.history) < fit_threshold
    THEN [blended |-> FALSE, fit |-> NotFitted, value |-> simulated_maker]
    ELSE IF lib.rejected
      THEN [blended |-> FALSE, fit |-> NotFitted, value |-> simulated_maker]
      ELSE [blended |-> TRUE, fit |-> m.fit,
            value |-> Plus(Times(Frac(7, 10), lib.maker_proba),
                           Times(Frac(3, 10), simulated_maker))]

\* A mutation of Proportions: the taker share is what the heuristic leaves.
ProportionsOfHeuristic(maker_proportion, simulated_maker) ==
  [maker_proportion |-> FracMax(Whole(0), FracMin(Whole(1), maker_proportion)),
   taker_proportion |-> Plus(Whole(1), Times(Whole(0 - 1), simulated_maker))]

\* Lines 153-159 of predict: the dictionary returned.
Proportions(maker_proportion, simulated_maker) ==
  LET clamped == FracMax(Whole(0), FracMin(Whole(1), maker_proportion))
  IN [maker_proportion |-> clamped,
      taker_proportion |-> Plus(Whole(1), Times(Whole(0 - 1), clamped))]

\* predict(orderbook, quantity, volatility): the estimator after the call, what
\* the call returned or raised (the TypeError of arithmetic on a None mid price, in
\* the depth filter of line 38 or the spread ratio of line 83), the heuristic, and
\* the fit behind a blended answer.
MakerPredictResult(m, b, quantity, volatility, labels, lib) ==
  IF GetMidPriceResult(b) = None
    THEN [model |-> m, result |-> Raised(IF b.asks # <<>> THEN 38 ELSE 83),
          heuristic |-> None, blended |-> FALSE, fit |-> NotFitted]
    ELSE LET features == MakerFeatures(b, quantity, volatility)
             simulated_maker == SimulateExecution(b, quantity, volatility)
             p == MakerPrediction(m, simulated_maker, lib)
         IN [model |-> MakerUpdateModel(m, features, labels, lib),
             result |-> Returned(Proportions(p.value, simulated_maker)),
             heuristic |-> simulated_maker, blended |-> p.blended, fit |-> p.fit]

MakerPredict(quantity, volatility, labels, lib) ==
  /\ maker_taker_model.calls < query.first_call + MaxCalls
  /\ LET r == MakerPredictResult(maker_taker_model, orderbook, quantity, volatility,
                                 labels, lib)
     IN /\ maker_taker_model' = r.model
        /\ query' = [op |-> "MakerTakerModel.predict", first_call |-> query.first_call,
                     quantity |-> quantity, volatility |-> volatility, library |-> lib,
                     result |-> r.result, heuristic |-> r.heuristic,
                     blended |-> r.blended, fit |-> r.fit]
  /\ UNCHANGED <<orderbook, call, raceVars, clientVars, appVars, predVars,
                 slippage_model, frameVars>>

\* The book the earlier calls were made on.
MakerBook ==
  UpdateBook(OrderBook("A", DefaultMaxDepth), <<<<2001, 2>>>>, <<<<2000, 1>>>>, 1)

\* The estimator after n calls with quantity 1 and volatility 0 on MakerBook, the
\* first of which drew the labels first_drawn and the others ones only.
MakerModelAfter(n, first_drawn) ==
  IF n = 0 THEN NewEstimator
  ELSE LET first == IF n * num_samples > history_cap
                      THEN n - (history_cap \div num_samples) + 1 ELSE 1
           kept == [i \in 1..((n - first + 1) * num_samples) |->
                      LET id == first + ((i - 1) \div num_samples)
                      IN [id |-> id, features |-> MakerFeatures(MakerBook, 1, 0),
                          label |-> IF id = 1 THEN first_drawn[((i - 1) % num_samples) + 1]
                                    ELSE 1,
                          rejected |-> FALSE]]
           fitted == Len(kept) >= fit_threshold /\ ~OneClass(kept)
       IN [history |-> kept, trained |-> fitted,
           fit |-> IF fitted THEN FitFrom(kept) ELSE NotFitted,
           calls |-> n,
           refit |-> IF Len(kept) < fit_threshold THEN "skipped"
                     ELSE IF fitted THEN "fitted" ELSE "failed"]

\* The numbers of calls the estimator has answered before, and what the first drew.
MakerStarts ==
  {<<0, MixedDrawn>>, <<(fit_threshold \div num_samples) - 1, MixedDrawn>>,
   <<(fit_threshold \div num_samples) - 1, OnesDrawn>>,
   <<(history_cap \div num_samples) - 1, MixedDrawn>>,
   <<history_cap \div num_samples, MixedDrawn>>}

InitMaker ==
  /\ \E asks \in MakerAsks, bids \in MakerBids :
       orderbook = UpdateBook(OrderBook("A", DefaultMaxDepth), asks, bids, 1)
  /\ \E st \in MakerStarts :
       /\ maker_taker_model = MakerModelAfter(st[1], st[2])
       /\ query = [op |-> "none", first_call |-> st[1]]
  /\ slippage_model = NewEstimator
  /\ CallIdle /\ RaceIdle /\ ClientIdle /\ AppInit /\ PredIdle /\ FrameIdle

NextMaker ==
  \E input \in MakerInputs, labels \in LabelDraws, lib \in MakerLibrary :
    MakerPredict(input[1], input[2], labels, lib)

SpecMaker == InitMaker /\ [][NextMaker]_vars

\* ---------------------------------------------------------- SpecImbalance
\* OrderBook.calculate_order_book_imbalance on books of up to six levels a side.

\* The prices and quantities of the snapshots the books hold.
DeepAskPrices == 11..16
DeepBidPrices == 1..6
DeepBids ==
  {[p \in DeepBidPrices |-> 0], [p \in DeepBidPrices |-> IF p = 6 THEN 2 ELSE 0],
   [p \in DeepBidPrices |-> 1], [p \in DeepBidPrices |-> IF p = 1 THEN 2 ELSE 1]}

\* A mutation of ImbalanceResult: the volumes are those of all the levels.
ImbalanceResultAllLevels(b) ==
  IF b.asks = <<>> \/ b.bids = <<>> THEN Whole(0)
  ELSE LET ask_volume == TopLiquidity(b.asks, Len(b.asks))
           bid_volume == TopLiquidity(b.bids, Len(b.bids))
           total_volume == ask_volume + bid_volume
       IN IF total_volume > 0 THEN Frac(bid_volume - ask_volume, total_volume)
          ELSE Whole(0)

\* calculate_order_book_imbalance()
ImbalanceResult(b) ==
  IF b.asks = <<>> \/ b.bids = <<>> THEN Whole(0)
  ELSE LET ask_volume == TopLiquidity(b.asks, 5)
           bid_volume == TopLiquidity(b.bids, 5)
           total_volume == ask_volume + bid_volume
       IN IF total_volume > 0 THEN Frac(bid_volume - ask_volume, total_volume)
          ELSE Whole(0)

CalculateOrderBookImbalance ==
  /\ query' = [op |-> "calculate_order_book_imbalance",
               result |-> ImbalanceResult(orderbook)]
  /\ UNCHANGED outsideQuery

\* The book after construction and a first snapshot, no call made yet.
InitImbalance ==
  /\ \E sa \in [DeepAskPrices -> Qtys], sb \in DeepBids :
       orderbook = UpdateBook(OrderBook("A", DefaultMaxDepth),
                              SnapshotDeltas(sa, DeepAskPrices),
                              SnapshotDeltas(sb, DeepBidPrices), 1)
  /\ CallIdle /\ RaceIdle /\ ClientIdle /\ AppInit /\ PredIdle /\ QueryIdle /\ EstIdle /\ FrameIdle

NextImbalance == CalculateOrderBookImbalance

SpecImbalance == InitImbalance /\ [][NextImbalance]_vars

\* ---------------------------------------------------------------- claims

StrictlyIncreasing(levels) ==
  \A i \in 1..Len(levels) - 1 : levels[i][1] < levels[i + 1][1]
StrictlyDecreasing(levels) ==
  \A i \in 1..Len(levels) - 1 : levels[i][1] > levels[i + 1][1]
NoZeroLevel(levels) == \A i \in 1..Len(levels) : levels[i][2] # 0

\* C1: after every update() the ask list has strictly increasing prices, the bid
\* list strictly decreasing prices, no level of either list has quantity zero, and
\* each list holds at most max_depth levels.
C1_BookInvariant ==
  /\ StrictlyIncreasing(orderbook.asks)
  /\ StrictlyDecreasing(orderbook.bids)
  /\ NoZeroLevel(orderbook.asks) /\ NoZeroLevel(orderbook.bids)
  /\ Len(orderbook.asks) <= orderbook.max_depth
  /\ Len(orderbook.bids) <= orderbook.max_depth

\* An update has cut a side with more levels than max_depth down to max_depth.
C1_Witness ==
  /\ orderbook.update_count > 0
  /\ Cardinality(DOMAIN orderbook.ask_dict) > orderbook.max_depth
  /\ Len(orderbook.asks) = orderbook.max_depth

\* The quantity a mapping holds at a price, 0 when the level is absent.
QtyAt(d, p) == IF p \in DOMAIN d THEN d[p] ELSE 0

Named(deltas) == {deltas[i][1] : i \in 1..Len(deltas)}

\* Delta i of the list, applied to the mapping the first i-1 deltas produced, leaves
\* its level absent (q = 0) or present with exactly q, and no other level changed;
\* the call's result is the mapping after the last delta, in which a level no delta
\* names has the quantity it had before the call.
SetNotAdd(before, after, deltas) ==
  /\ \A i \in 1..Len(deltas) :
       LET pre == ApplyDeltas(before, SubSeq(deltas, 1, i - 1))
           post == ApplyDeltas(before, SubSeq(deltas, 1, i))
           p == deltas[i][1]
           q == deltas[i][2]
       IN /\ (q = 0) => p \notin DOMAIN post
          /\ (q # 0) => p \in DOMAIN post /\ post[p] = q
          /\ \A x \in Prices \ {p} : QtyAt(post, x) = QtyAt(pre, x)
          /\ (i = Len(deltas)) => post = after
  /\ \A p \in Prices :
       \/ \E i \in 1..Len(deltas) :
            /\ deltas[i][1] = p
            /\ \A j \in (i + 1)..Len(deltas) : deltas[j][1] # p
            /\ QtyAt(after, p) = deltas[i][2]
       \/ p \notin Named(deltas) /\ QtyAt(after, p) = QtyAt(before, p)

\* C2: every delta (p, q) update() applies to a side leaves level p absent when q
\* is zero and present with quantity exactly q otherwise, whatever quantity the
\* level had before, and every level the deltas do not name keeps its quantity.
C2_SetNotAdd ==
  (call # None /\ call.state = "returned") =>
    /\ SetNotAdd(call.before.ask_dict, orderbook.ask_dict, call.asks)
    /\ SetNotAdd(call.before.bid_dict, orderbook.bid_dict, call.bids)

\* A call has set a level that held quantity 1 to quantity 2 while another level
\* of the same side kept its quantity.
C2_Witness ==
  /\ call # None /\ call.state = "returned"
  /\ \E p \in Prices, o \in Prices :
       /\ o # p
       /\ QtyAt(call.before.ask_dict, p) = 1
       /\ call.asks = <<<<p, 2>>>>
       /\ QtyAt(orderbook.ask_dict, p) = 2
       /\ QtyAt(call.before.ask_dict, o) = 1
       /\ QtyAt(orderbook.ask_dict, o) = 1
\* What update() publishes when it returns: each list is its mapping, sorted and cut
\* to max_depth.
Published(o) ==
  /\ o.asks = Truncate(SortedItems(o.ask_dict, DOMAIN o.ask_dict, FALSE), o.max_depth)
  /\ o.bids = Truncate(SortedItems(o.bid_dict, DOMAIN o.bid_dict, TRUE), o.max_depth)

\* C3: a reader running beside update() never observes an intermediate state of the
\* update: no side longer than max_depth, no side rebuilt while the other still
\* holds its pre-update levels, no mapping that disagrees with its ordered list.
C3_ReaderSeesNoIntermediateState ==
  seen # None =>
    /\ Len(seen.asks) <= seen.max_depth
    /\ Len(seen.bids) <= seen.max_depth
    /\ Published(seen)

\* C4: whenever the transport closes while should_reconnect is true, a reconnect
\* attempt follows: the close handler leaves a new connection being opened, which
\* becomes connected and is sent a subscribe message for every subscribed symbol.
\* So the client is never left with reconnection wanted and no thread running a
\* connection.
C4_CloseLeadsToReconnect ==
  ~(should_reconnect /\ ws_thread = "dead")

\* C5: an event for symbol S is applied only to S's book: the book never holds the
\* effect of an event of another symbol, also after a switch of symbol.
C5_EventsReachOnlyTheirOwnBook ==
  orderbook # None => \A symbol \in applied : symbol = orderbook.symbol

\* C6: after a switch to a symbol, once an event of that symbol has been consumed,
\* a book of that symbol exists and an estimate for it is a quote, not the error.
C6_BookOfNewSymbolAfterSwitch ==
  (since_switch.switched /\ current_symbol \in since_switch.events)
    => /\ orderbook # None
       /\ orderbook.symbol = current_symbol
       /\ EstimateStatus(current_symbol) = 200

\* C7: while the consumer is processing an event the read loop is back at
\* receiving, able to take the next incoming message.
C7_ReadLoopNotBlockedByConsumer ==
  consumer # NoEvent => read_loop.pc = "recv"

\* The history two calls made one after the other leave: every sample of both
\* calls in it, the oldest samples gone beyond the cap.
SerialHistory ==
  LastSamples([old |-> start_len, new |-> [t \in Threads |-> num_samples]])

\* C8: two concurrent predict calls on one estimator are serialized: when both
\* have returned the history is the one a serial order leaves, no sample lost,
\* and no call has fitted from a history the other was modifying.
C8_PredictCallsSerialized ==
  /\ ~torn_fit
  /\ (\A t \in Threads : pc[t] = "done") => history = SerialHistory

\* The step in which the read loop takes a frame, and the frame it takes.
Receives == read_loop'.tick # read_loop.tick
Taken == read_loop'.last

\* The frame is dropped: nothing handed to the consumer, the book as it was, the
\* client still connected and reading.
DroppedStep ==
  /\ consumer' = NoEvent
  /\ read_loop'.pc = "recv"
  /\ orderbook' = orderbook
  /\ is_connected' /\ ws_thread' = "open"

Undecodable(f) == f.encoding = "corrupt" \/ f.json = "garbage"
IsDataEvent(f) == ~Undecodable(f) /\ f.event = "None" /\ f.has_data
NonNumericSide(field) ==
  field.present /\ \E i \in 1..Len(field.value) :
    \/ Len(field.value[i]) < 2
    \/ field.value[i][1].kind # "num"
    \/ field.value[i][2].kind # "num"
NonNumeric(f) ==
  NonNumericSide(f.asks) \/ NonNumericSide(f.bids) \/ (f.ts.present /\ f.ts.value.kind # "num")
MissingKey(f) == ~f.asks.present \/ ~f.bids.present \/ ~f.ts.present

\* The event a complete book event carries, with the defaults for keys left out.
NumbersOf(field) ==
  IF field.present
    THEN [i \in 1..Len(field.value) |-> <<field.value[i][1].value, field.value[i][2].value>>]
    ELSE <<>>
EventOf(f) ==
  [symbol |-> f.instId, asks |-> NumbersOf(f.asks), bids |-> NumbersOf(f.bids),
   timestamp |-> IF f.ts.present THEN f.ts.value.value ELSE LocalNow]
Deliverable(f) ==
  IsDataEvent(f) /\ f.has_arg /\ f.channel \in BookChannels /\ ~NonNumeric(f)

\* C9 as stated: a frame that is no JSON or does not inflate, and a data event with
\* a missing or non-numeric field, is dropped, and the well-formed message after it
\* is handed to the consumer as it is.
C9_MalformedDropped ==
  [][Receives =>
       /\ (Undecodable(Taken)
             \/ (IsDataEvent(Taken)
                   /\ (~Taken.has_arg \/ MissingKey(Taken) \/ NonNumeric(Taken))))
            => DroppedStep
       /\ (Taken \in GoodFrames /\ read_loop.last \in BrokenFrames \cup PartialFrames)
            => consumer' = EventOf(Taken)]_vars

\* C9, corrected: a frame that is no JSON or does not inflate, and a data event
\* without arg or with a non-numeric field, is dropped; a book event that only
\* leaves out asks, bids or ts is delivered, the side empty and the time local; the
\* well-formed message after a dropped one is handed to the consumer as it is.
C9_MalformedDroppedUnlessDefaulted ==
  [][Receives =>
       /\ (Undecodable(Taken)
             \/ (IsDataEvent(Taken) /\ (~Taken.has_arg \/ NonNumeric(Taken))))
            => DroppedStep
       /\ (Deliverable(Taken) /\ MissingKey(Taken))
            => consumer' = EventOf(Taken) /\ read_loop'.pc = "in_callback"
       /\ (Taken \in GoodFrames /\ read_loop.last \in BrokenFrames)
            => consumer' = EventOf(Taken)]_vars

\* A broken frame was the last one taken: no event pending, the book there and the
\* client connected.
C9_Witness ==
  /\ read_loop.last \in BrokenFrames
  /\ read_loop.outcome \in {"raised", "caught"}
  /\ consumer = NoEvent
  /\ orderbook # None /\ orderbook.update_count > 0
  /\ is_connected

Count(w, msg) == Cardinality({i \in 1..Len(w) : w[i] = msg})

\* C10: subscribe and unsubscribe calls made while the client is disconnected send
\* nothing, and the next connect sends exactly one subscribe message for each symbol
\* then in the subscription set and none for any other symbol.
C10_DeferredSubscriptions ==
  [][/\ (~is_connected /\ ~is_connected') => wire' = wire
     /\ (~is_connected /\ is_connected') =>
          \A symbol \in Symbols :
            /\ Count(wire', SubscribeMsg(symbol)) = (IF symbol \in subscriptions THEN 1 ELSE 0)
            /\ Count(wire', UnsubscribeMsg(symbol)) = 0]_vars

\* Connected after a disconnected period in which A and B were subscribed and B was
\* unsubscribed again: the connection was sent one subscribe for A and none for B.
C10_Witness ==
  /\ is_connected
  /\ {<<"subscribe", "A">>, <<"subscribe", "B">>, <<"unsubscribe", "B">>} \subseteq offline_ops
  /\ subscriptions = {"A"}
  /\ Count(wire, SubscribeMsg("A")) = 1
  /\ Count(wire, SubscribeMsg("B")) = 0

\* C11: unsubscribe(symbol) on a disconnected client takes the symbol out of the
\* subscription set, sends nothing and raises nothing; for a symbol that is not in
\* the set it changes nothing and sends nothing.
C11_UnsubscribeWhileDisconnected ==
  [][\A symbol \in Symbols :
       /\ (~is_connected /\ Unsubscribe(symbol))
            => /\ subscriptions' = subscriptions \ {symbol}
               /\ wire' = wire
               /\ ~UnsubscribeRaises(symbol)
       /\ (symbol \notin subscriptions /\ Unsubscribe(symbol))
            => /\ subscriptions' = subscriptions
               /\ wire' = wire
               /\ ~UnsubscribeRaises(symbol)]_vars

\* Disconnected, after A was subscribed and unsubscribed again (and unsubscribed
\* once more or not): A is not in the set and nothing was sent.
C11_Witness ==
  /\ ~is_connected
  /\ {<<"subscribe", "A">>, <<"unsubscribe", "A">>} \subseteq offline_ops
  /\ "A" \notin subscriptions
  /\ "B" \in subscriptions
  /\ wire = <<>>

\* The call made twice in a row against the call made once.
SubscribeTwice(symbol) ==
  LET once == SubscribeResult(subscriptions, wire, symbol)
  IN SubscribeResult(once.subscriptions, once.wire, symbol)
UnsubscribeTwice(symbol) ==
  LET once == UnsubscribeResult(subscriptions, wire, symbol)
  IN UnsubscribeResult(once.subscriptions, once.wire, symbol)

\* C12 as stated: subscribe(s) twice in a row leaves the set and the messages sent
\* as subscribe(s) once does, and so for unsubscribe(s), connected or not.
C12_Idempotent ==
  \A symbol \in Symbols :
    /\ SubscribeTwice(symbol) = SubscribeResult(subscriptions, wire, symbol)
    /\ UnsubscribeTwice(symbol) = UnsubscribeResult(subscriptions, wire, symbol)

\* C12, corrected: both calls are idempotent on the subscription set, unsubscribe
\* also on the messages sent; subscribe on the messages sent only while the client
\* is not connected: on an open connection the second call sends the subscribe
\* message again.
C12_IdempotentOnTheSet ==
  \A symbol \in Symbols :
    LET once == SubscribeResult(subscriptions, wire, symbol)
    IN /\ SubscribeTwice(symbol).subscriptions = once.subscriptions
       /\ ~is_connected => SubscribeTwice(symbol).wire = once.wire
       /\ (is_connected /\ SocketOpen)
            => SubscribeTwice(symbol).wire = Append(once.wire, SubscribeMsg(symbol))
       /\ UnsubscribeTwice(symbol) = UnsubscribeResult(subscriptions, wire, symbol)

\* An open connection that was sent the subscribe message for A twice.
C12_Witness ==
  /\ is_connected /\ SocketOpen
  /\ "A" \in subscriptions
  /\ Count(wire, SubscribeMsg("A")) = 2

\* Every delta of the call sets a level the mapping holds to the quantity it holds,
\* and there is such a delta.
SetsCurrentQuantity(d, deltas) ==
  \A i \in 1..Len(deltas) : deltas[i][1] \in DOMAIN d /\ d[deltas[i][1]] = deltas[i][2]
Redundant ==
  /\ call # None /\ call.state = "returned"
  /\ Len(call.asks) + Len(call.bids) > 0
  /\ SetsCurrentQuantity(call.before.ask_dict, call.asks)
  /\ SetsCurrentQuantity(call.before.bid_dict, call.bids)

\* C13 as stated: update() with a delta that sets an existing level to the
\* quantity it already has leaves the book unchanged, both lists, both mappings
\* and every other field, except for the rolling statistics.
C13_RedundantDeltaChangesNothing ==
  Redundant =>
    orderbook = [call.before EXCEPT !.mid_price_history = orderbook.mid_price_history,
                                    !.spread_history = orderbook.spread_history,
                                    !.depth_history = orderbook.depth_history]

\* C13, corrected: such an update leaves both lists, both mappings, the symbol and
\* the depth cap unchanged; it stamps the book with the update's timestamp, counts
\* the update, and appends one entry to the rolling statistics when both sides
\* are non-empty.
C13_RedundantDeltaKeepsLevels ==
  Redundant =>
    /\ orderbook.asks = call.before.asks /\ orderbook.bids = call.before.bids
    /\ orderbook.ask_dict = call.before.ask_dict
    /\ orderbook.bid_dict = call.before.bid_dict
    /\ orderbook.symbol = call.before.symbol
    /\ orderbook.max_depth = call.before.max_depth
    /\ orderbook.update_count = call.before.update_count + 1
    /\ orderbook.timestamp = call.before.update_count + 1
    /\ Len(orderbook.mid_price_history) =
         Len(call.before.mid_price_history)
           + (IF orderbook.asks # <<>> /\ orderbook.bids # <<>> THEN 1 ELSE 0)

\* A returned update whose one delta set an ask level to the quantity it had, on a
\* book with both sides: the levels as before, the timestamp new.
C13_Witness ==
  /\ Redundant
  /\ Len(call.asks) = 1
  /\ orderbook.asks # <<>> /\ orderbook.bids # <<>>
  /\ orderbook.asks = call.before.asks
  /\ orderbook.timestamp # call.before.timestamp

RECURSIVE SumQty(_)
SumQty(levels) == IF levels = <<>> THEN 0 ELSE Head(levels)[2] + SumQty(Tail(levels))

\* What a best-first walk for quantity q takes from level i: what is left of q
\* after the levels before it, at most the level's quantity.
FillAt(levels, i, q) ==
  LET before == SumQty(SubSeq(levels, 1, i - 1))
      left == IF q > before THEN q - before ELSE 0
  IN IF left < levels[i][2] THEN left ELSE levels[i][2]

RECURSIVE CostOfFills(_, _, _)
CostOfFills(levels, i, q) ==
  IF i > Len(levels) THEN 0
  ELSE levels[i][1] * FillAt(levels, i, q) + CostOfFills(levels, i + 1, q)

WalkSide == IF query.side = "buy" THEN orderbook.asks ELSE orderbook.bids

\* C14: the book walk for a quantity Q > 0 takes the levels of the matching side
\* best first and fills min(Q, total quantity of the side): never more than Q, and
\* less than Q, as an ordinary result, when the side holds less.
C14_WalkFillsMinOfQuantityAndSide ==
  (query # None /\ query.op = "calculate_market_impact" /\ query.quantity > 0) =>
    LET total == SumQty(WalkSide)
        r == query.result
    IN /\ r.executed_qty = (IF query.quantity < total THEN query.quantity ELSE total)
       /\ r.executed_qty <= query.quantity
       /\ r.executed_qty > 0 =>
            /\ r.avg_price.den = r.executed_qty
            /\ r.avg_price.num = CostOfFills(WalkSide, 1, query.quantity)
       /\ r.executed_qty = 0 => r.avg_price = None

\* A walk that ran out of levels: two levels taken whole, less filled than asked.
C14_Witness ==
  /\ query # None /\ query.op = "calculate_market_impact"
  /\ Len(WalkSide) = 2
  /\ query.result.executed_qty = SumQty(WalkSide)
  /\ query.result.executed_qty < query.quantity

\* C15: a book walk of quantity 0, on either side of any book, fills 0 and has no
\* average price.
C15_WalkOfZero ==
  (query # None /\ query.op = "calculate_market_impact" /\ query.quantity = 0) =>
    /\ query.result.executed_qty = 0
    /\ query.result.avg_price = None

\* A walk of quantity 0 on a side that holds levels.
C15_Witness ==
  /\ query # None /\ query.op = "calculate_market_impact"
  /\ query.quantity = 0
  /\ WalkSide # <<>>
  /\ query.result.executed_qty = 0

BothSides(b) == b.asks # <<>> /\ b.bids # <<>>

\* C16: get_mid_price and get_spread return a value when both sides of the book
\* are non-empty and None, not zero, when a side is empty; and an update that
\* leaves a side empty appends nothing to the rolling statistics: the snapshot
\* update that made the book did not, and no next update of the book would.
C16_UnavailableWithoutBothSides ==
  /\ (query # None /\ query.op = "get_mid_price") =>
       IF BothSides(orderbook)
         THEN query.result = [num |-> orderbook.asks[1][1] + orderbook.bids[1][1], den |-> 2]
         ELSE query.result = None
  /\ (query # None /\ query.op = "get_spread") =>
       IF BothSides(orderbook)
         THEN query.result = [num |-> (orderbook.asks[1][1] - orderbook.bids[1][1]) * 20000,
                              den |-> orderbook.asks[1][1] + orderbook.bids[1][1]]
         ELSE query.result = None
  /\ ~BothSides(orderbook) =>
       /\ orderbook.mid_price_history = <<>>
       /\ orderbook.spread_history = <<>>
       /\ orderbook.depth_history = <<>>
  /\ query = None =>
       \A ab \in DeltaArgs :
         LET after == UpdateBook(orderbook, ab[1], ab[2], orderbook.update_count + 1)
         IN ~BothSides(after) =>
              /\ after.mid_price_history = orderbook.mid_price_history
              /\ after.spread_history = orderbook.spread_history
              /\ after.depth_history = orderbook.depth_history

\* get_mid_price returned None on a book with asks and no bids, whose snapshot
\* update left the statistics empty.
C16_Witness ==
  /\ query # None /\ query.op = "get_mid_price"
  /\ query.result = None
  /\ orderbook.asks # <<>> /\ orderbook.bids = <<>>
  /\ orderbook.update_count = 1
  /\ orderbook.mid_price_history = <<>>

\* The history after an append to h: h and one more entry, without the oldest
\* entries beyond the cap.
AppendedTo(h, after) ==
  /\ Len(after) = (IF Len(h) < max_history THEN Len(h) + 1 ELSE max_history)
  /\ \A i \in 1..(Len(after) - 1) : after[i] = h[Len(h) + 1 - Len(after) + i]

\* C17: the three rolling-statistics sequences have the same length, at most
\* 1000; an update that leaves both sides non-empty appends exactly one entry to
\* each, and beyond the cap it is the oldest entries that go.
C17_RollingStatistics ==
  [][/\ Len(orderbook'.mid_price_history) = Len(orderbook'.spread_history)
     /\ Len(orderbook'.mid_price_history) = Len(orderbook'.depth_history)
     /\ Len(orderbook'.mid_price_history) <= max_history
     /\ (orderbook'.update_count = orderbook.update_count + 1 /\ BothSides(orderbook')) =>
          /\ AppendedTo(orderbook.mid_price_history, orderbook'.mid_price_history)
          /\ AppendedTo(orderbook.spread_history, orderbook'.spread_history)
          /\ AppendedTo(orderbook.depth_history, orderbook'.depth_history)
          /\ orderbook'.mid_price_history[Len(orderbook'.mid_price_history)] =
               [num |-> orderbook'.asks[1][1] + orderbook'.bids[1][1], den |-> 2]]_vars

\* More than 1000 updates with both sides: the sequences are full and the entry of
\* the first update is gone.
C17_Witness ==
  /\ orderbook.update_count > max_history
  /\ Len(orderbook.mid_price_history) = max_history
  /\ Len(call.before.mid_price_history) = max_history
  /\ orderbook.mid_price_history[1] # call.before.mid_price_history[1]
  /\ orderbook.mid_price_history[1] = call.before.mid_price_history[2]

\* A call of calculate_impact has ended, by a return or by an exception.
ImpactCalled == query # None /\ query.op = "calculate_impact"

\* C18: calculate_impact returns a value in [0, 0.1] for every quantity Q >= 0,
\* every volatility and every book state, and returns 0 when Q is 0.
C18_ImpactWithinBounds ==
  ImpactCalled =>
    /\ ~query.result.raised
    /\ Leq(Whole(0), query.result.value)
    /\ Leq(query.result.value, Frac(1, 10))
    /\ (query.quantity = 0 => query.result.value = Whole(0))

\* C19: for a fixed book and a fixed volatility calculate_impact is non-decreasing
\* in the quantity: no larger quantity gets a smaller impact than the one returned.
C19_ImpactMonotonicInQuantity ==
  (ImpactCalled /\ ~query.result.raised) =>
    \A q2 \in ImpactQtys :
      query.quantity <= q2 =>
        Leq(query.result.value, ImpactResult(orderbook, q2, query.volatility).value)

\* C20: an error raised while calculate_impact computes its result does not reach
\* the caller: the call returns a value.
C20_ErrorsFallBack ==
  (ImpactCalled /\ AdjustParams(orderbook, query.quantity).raised) =>
    ~query.result.raised

\* A call of SlippageModel.predict has ended, by a return or by an exception.
SlippageCalled == query # None /\ query.op = "SlippageModel.predict"

\* C21: with an empty book the book walk of SlippageModel for any Q > 0 prices the
\* whole quantity at mid and yields slippage 0, without raising an error.
C21_EmptyBookSlippageZero ==
  (SlippageCalled /\ orderbook.asks = <<>> /\ orderbook.bids = <<>> /\ query.quantity > 0)
    => (~query.baseline.raised /\ query.baseline.value = Whole(0))

\* C22: a predict call made while the history holds fewer than 30 samples returns
\* exactly the book-walk baseline, and every call that gets its baseline appends
\* exactly one (features, baseline) sample, the oldest sample leaving over 1000, so
\* after k such calls the history holds min(k, 1000) samples.
C22_BaselineBelowThresholdOneSamplePerCall ==
  [][(query'.op = "SlippageModel.predict" /\ query' # query) =>
       LET h == slippage_model.history
           h2 == slippage_model'.history
           dropped == Len(h) + 1 - Len(h2)
       IN IF query'.baseline.raised
            THEN slippage_model' = slippage_model
            ELSE /\ (Len(h) < min_history =>
                       ~query'.result.raised /\ query'.result.value = query'.baseline.value)
                 /\ Len(h2) = (IF Len(h) + 1 > history_limit THEN history_limit
                               ELSE Len(h) + 1)
                 /\ h2[Len(h2)] = [id |-> slippage_model.calls + 1,
                                   features |-> SlippageFeatures(orderbook, query'.quantity),
                                   label |-> query'.baseline.value]
                 /\ SubSeq(h2, 1, Len(h2) - 1) = SubSeq(h, 1 + dropped, Len(h))
                 /\ slippage_model'.calls = slippage_model.calls + 1
                 /\ Len(h2) = (IF slippage_model'.calls > history_limit THEN history_limit
                               ELSE slippage_model'.calls)]_vars

\* A call answered by the baseline alone that made the oldest sample leave.
C22_Witness ==
  /\ SlippageCalled /\ ~query.result.raised /\ ~query.blended
  /\ slippage_model.calls = history_limit + 1
  /\ Len(slippage_model.history) = history_limit
  /\ slippage_model.history[1].id = 2

\* 0.7 * modelPrediction + 0.3 * baseline of the call recorded in q.
Blend(q) ==
  Plus(Times(Frac(7, 10), q.library.model_prediction),
       Times(Frac(3, 10), q.baseline.value))

C27_UnsupportedOrderTypeAsMarket ==
  [][(query'.op = "SlippageModel.predict" /\ query' # query
      /\ query'.order_type # "market") =>
       LET market == SlippagePredictResult(slippage_model, orderbook, query'.quantity,
                                           "market", query'.library)
       IN /\ query'.result = market.result
          /\ slippage_model' = market.model
          /\ (query'.result.raised => query'.baseline.raised)]_vars

\* A call with order type "limit" that returned a value and appended its sample.
C27_Witness ==
  /\ SlippageCalled /\ query.order_type = "limit" /\ ~query.result.raised
  /\ slippage_model.history # <<>>
  /\ slippage_model.history[Len(slippage_model.history)].id = slippage_model.calls
  /\ slippage_model.calls > query.first_call

\* A call of MakerTakerModel.predict has ended, by a return or by an exception.
MakerCalled == query # None /\ query.op = "MakerTakerModel.predict"

\* C24: whatever the estimator's state (untrained, trained, prediction failed),
\* the maker_proportion and taker_proportion a predict call returns are each in
\* [0, 1] and sum to exactly 1.
C24_ProportionsSumToOne ==
  (MakerCalled /\ ~query.result.raised) =>
    LET maker == query.result.value.maker_proportion
        taker == query.result.value.taker_proportion
    IN /\ Leq(Whole(0), maker) /\ Leq(maker, Whole(1))
       /\ Leq(Whole(0), taker) /\ Leq(taker, Whole(1))
       /\ Plus(maker, taker) = Whole(1)

\* A call answered with a blend that differs from the heuristic share.
C24_Witness ==
  /\ MakerCalled /\ ~query.result.raised /\ query.blended
  /\ query.result.value.maker_proportion # query.heuristic

\* 0.7 * classifierProbability + 0.3 * heuristic of the call recorded in q.
MakerBlend(q) ==
  Plus(Times(Frac(7, 10), q.library.maker_proba), Times(Frac(3, 10), q.heuristic))

\* The call appends exactly 10 samples of its own to h, the oldest leaving over
\* 1000, and h2 is the result.
TenAppended(h, h2, id, features) ==
  LET dropped == Len(h) + num_samples - Len(h2)
  IN /\ Len(h2) = (IF Len(h) + num_samples > history_cap THEN history_cap
                   ELSE Len(h) + num_samples)
     /\ Len(h2) % num_samples = 0
     /\ \A k \in 1..num_samples :
          LET s == h2[Len(h2) - num_samples + k]
          IN s.id = id /\ s.features = features /\ s.label \in {0, 1}
     /\ SubSeq(h2, 1, Len(h2) - num_samples) = SubSeq(h, 1 + dropped, Len(h))

\* C25 as stated: every predict call appends exactly 10 samples, the history
\* length is a multiple of 10 and at most 1000 with the oldest evicted first, a
\* call that finds fewer than 50 samples returns exactly the heuristic share, and
\* every later call returns 0.7 * classifierProbability + 0.3 * heuristic.
C25_TenSamplesThenBlend ==
  [][(query'.op = "MakerTakerModel.predict" /\ query' # query /\ ~query'.result.raised) =>
       /\ TenAppended(maker_taker_model.history, maker_taker_model'.history,
                      maker_taker_model.calls + 1,
                      MakerFeatures(orderbook, query'.quantity, query'.volatility))
       /\ query'.result.value.maker_proportion =
            (IF Len(maker_taker_model.history) < fit_threshold THEN query'.heuristic
             ELSE MakerBlend(query'))]_vars

\* C25 amended: as stated, except that a call that finds at least 50 samples
\* returns the blend only if a fit has succeeded before and predict_proba does not
\* raise, and the heuristic share otherwise.
C25_TenSamplesThenBlendIfFitted ==
  [][(query'.op = "MakerTakerModel.predict" /\ query' # query /\ ~query'.result.raised) =>
       /\ TenAppended(maker_taker_model.history, maker_taker_model'.history,
                      maker_taker_model.calls + 1,
                      MakerFeatures(orderbook, query'.quantity, query'.volatility))
       /\ query'.result.value.maker_proportion =
            (IF Len(maker_taker_model.history) < fit_threshold THEN query'.heuristic
             ELSE IF maker_taker_model.trained /\ ~query'.library.rejected
               THEN MakerBlend(query')
             ELSE query'.heuristic)]_vars

\* A blended answer by an estimator whose history is full and has lost the ten
\* samples of its oldest call.
C25_Witness ==
  /\ MakerCalled /\ ~query.result.raised /\ query.blended
  /\ query.result.value.maker_proportion = MakerBlend(query)
  /\ Len(maker_taker_model.history) = history_cap
  /\ maker_taker_model.history[1].id = 2
  /\ maker_taker_model.history[history_cap].id = maker_taker_model.calls

\* C26: a refit that fails inside an estimator does not reach the caller, and the
\* estimator's answers fall back to its deterministic component: the predict call
\* after a failed refit returns the baseline (slippage) or the heuristic share
\* (maker/taker), not a blend with a model from an earlier fit.
C26_FailedRefitFallsBack ==
  [][/\ (query'.op = "SlippageModel.predict" /\ query' # query
         /\ slippage_model.refit = "failed" /\ ~query'.baseline.raised)
          => /\ ~query'.result.raised /\ ~query'.blended
             /\ query'.result.value = query'.baseline.value
     /\ (query'.op = "MakerTakerModel.predict" /\ query' # query
         /\ maker_taker_model.refit = "failed" /\ ~query'.result.raised)
          => /\ ~query'.blended
             /\ query'.result.value.maker_proportion = query'.heuristic]_vars

\* C28: shutdown is one-way: once stop() has been called, and until start() is
\* called again, no further connection is created or established and no
\* reconnect is attempted, so that no event of the feed can reach the consumer.
C28_ShutdownIsOneWay ==
  [][(~should_reconnect /\ ~should_reconnect') =>
       /\ ws' = ws
       /\ (is_connected' => is_connected)
       /\ ws_thread' # "open" \/ ws_thread = "open"]_vars

\* The first n levels of a side, or all of them if there are fewer.
TopLevels(levels, n) == SubSeq(levels, 1, IF Len(levels) < n THEN Len(levels) ELSE n)

\* C29: calculate_order_book_imbalance returns a value in [-1, 1], computed over
\* the top 5 levels of each side, and returns 0 whenever either side is empty.
C29_ImbalanceOverTopFive ==
  (query # None /\ query.op = "calculate_order_book_imbalance") =>
    LET bid_volume == SumQty(TopLevels(orderbook.bids, 5))
        ask_volume == SumQty(TopLevels(orderbook.asks, 5))
    IN /\ Leq(Whole(0 - 1), query.result) /\ Leq(query.result, Whole(1))
       /\ (orderbook.asks = <<>> \/ orderbook.bids = <<>>) => query.result = Whole(0)
       /\ (orderbook.asks # <<>> /\ orderbook.bids # <<>>) =>
            query.result.num * (bid_volume + ask_volume)
              = (bid_volume - ask_volume) * query.result.den

\* The imbalance of a book with six levels on each side whose sixth levels would
\* change it.
C29_Witness ==
  /\ query # None /\ query.op = "calculate_order_book_imbalance"
  /\ Len(orderbook.asks) = 6 /\ Len(orderbook.bids) = 6
  /\ query.result # Whole(0)
  /\ query.result # ImbalanceResultAllLevels(orderbook)


\* The cost coefficients, the inventory and the tables of the call in query:
\* tables[t + 1] is the row of step t, the last one the terminal row.
ImpactUnits ==
  LET params == AdjustParams(orderbook, query.quantity)
  IN CostUnits(params.temp_impact_eta, params.perm_impact_gamma, query.volatility)
ImpactShares ==
  LET normalized_quantity ==
        FracMin(Whole(1000), FracMax(Whole(10), Frac(query.quantity, 10)))
  IN normalized_quantity.num \div normalized_quantity.den
ImpactTables ==
  BackwardInduction(ImpactUnits, ImpactShares,
                    <<TerminalRow(ImpactUnits, ImpactShares)>>)

\* In tables, at every step t before the last and every inventory s: the recorded
\* move is between 0 and s, its cost is the recorded value, no n in 0..s costs
\* less, and every n below the recorded move costs strictly more.
LowestMinimisers(k, shares, tables) ==
  \A t \in 1..time_steps - 1 : \A s \in 0..shares :
    LET best == tables[t][s + 1]
        next_row == tables[t + 1]
    IN /\ best.move \in 0..s
       /\ best.value = TotalCost(k, s, best.move, next_row)
       /\ \A n \in 0..s : best.value <= TotalCost(k, s, n, next_row)
       /\ \A n \in 0..best.move - 1 : best.value < TotalCost(k, s, n, next_row)

\* In tables, some step and inventory has two n of equal minimal cost.
SomeTie(k, shares, tables) ==
  \E t \in 1..time_steps - 1 : \E s \in 1..shares :
    LET best == tables[t][s + 1]
        next_row == tables[t + 1]
    IN \E n \in best.move + 1..s : TotalCost(k, s, n, next_row) = best.value

\* C30: in the tables of every call that returned, the move recorded for each
\* step before the last and each inventory is feasible, attains the minimum cost
\* over 0..s, is the lowest n that does, and the recorded value is that minimum.
C30_MoveIsLowestMinimiser ==
  (ImpactCalled /\ ~query.result.raised) =>
    LowestMinimisers(ImpactUnits, ImpactShares, ImpactTables)

\* C30 witness: a call returned whose tables hold a tie, and of the n that tie
\* at the minimum the lowest is the one recorded.
C30_Witness ==
  /\ ImpactCalled /\ ~query.result.raised
  /\ SomeTie(ImpactUnits, ImpactShares, ImpactTables)
  /\ LowestMinimisers(ImpactUnits, ImpactShares, ImpactTables)


\* optimal_trajectory of the call in query: the moves of the forward simulation.
ImpactTrajectory == ForwardSimulation(ImpactTables, ImpactShares, <<>>)

\* The trades of trajectory from slice i on, as sum(optimal_trajectory[i:]).
RemainingQty(trajectory, i) == SumSeq(SubSeq(trajectory, i, Len(trajectory)))

\* The trajectory liquidates shares: no trade is negative, the inventory never
\* falls below 0, the trades sum to shares, and the quantity the permanent term
\* of slice i multiplies is the inventory held when slice i begins.
Liquidates(trajectory, shares) ==
  /\ \A i \in 1..Len(trajectory) : trajectory[i] >= 0
  /\ \A i \in 0..Len(trajectory) : SumSeq(SubSeq(trajectory, 1, i)) <= shares
  /\ SumSeq(trajectory) = shares
  /\ \A i \in 1..Len(trajectory) :
       RemainingQty(trajectory, i) = shares - SumSeq(SubSeq(trajectory, 1, i - 1))

\* C31: the trajectory the impact sums run over liquidates the whole working
\* quantity: inventory is non-increasing and never negative, the trade sizes sum
\* to int(normalized_quantity), and each slice's permanent term multiplies the
\* inventory remaining at that slice.
C31_TrajectoryLiquidatesAll ==
  (ImpactCalled /\ ~query.result.raised) => Liquidates(ImpactTrajectory, ImpactShares)


\* C32: on the connection opened last the login message, when there are
\* credentials, comes before every subscribe message and every ping, whoever
\* sent them, and no ping is sent before the handler's loop over the
\* subscription set is over.
C32_LoginSubscribePingOrder ==
  /\ \A i, j \in 1..Len(wire) :
       (i < j /\ wire[j].op = "login") => wire[i].op \notin {"subscribe", "ping"}
  /\ (credentials /\ on_open.pc \in {"iter", "next", "ping", "done"}
      /\ wire # <<>>) => wire[1].op = "login"
  /\ on_open.pc \in {"login", "iter", "next"} =>
       \A i \in 1..Len(wire) : wire[i].op # "ping"


\* C36: once the open handler has returned and while the client is connected, a
\* keep-alive loop is running.
C36_ConnectedHasPingLoop ==
  (is_connected /\ on_open.pc = "done") => ping_thread = "running"

\* C37: the open handler never ends in an error raised by its loop over the
\* subscription set, whatever subscribe() and unsubscribe() calls other threads
\* make meanwhile; it reaches _start_ping_thread.
C37_ResubscriptionCompletes == on_open.pc # "raised"


\* The frame is a data message on a book channel with a non-empty data array.
BookData(f) ==
  f.event = "None" /\ f.has_data /\ f.has_arg /\ f.channel \in BookChannels

\* C33: the step that takes a frame hands an event to the consumer only for a
\* data message on a book channel with a non-empty data array; for a control
\* event, data on another channel or an empty data array it hands over nothing
\* and leaves the book as it was.
C33_OnlyBookDataDelivered ==
  [][Receives =>
       /\ consumer' # NoEvent => BookData(Taken)
       /\ ~BookData(Taken) =>
            consumer' = NoEvent /\ read_loop'.pc = "recv" /\ orderbook' = orderbook]_vars

\* C33 witness: the frame taken last was a control event or data on another
\* channel; a book exists and nothing is pending for the consumer.
C33_Witness ==
  /\ read_loop.last \in OtherFrames
  /\ read_loop.last.event # "None" \/ read_loop.last.channel = "trades"
  /\ read_loop.outcome \in {"logged", "ignored"}
  /\ consumer = NoEvent
  /\ orderbook # None /\ orderbook.update_count > 0


\* The prices of an ordered level list.
ListedPrices(levels) == {levels[i][1] : i \in 1..Len(levels)}

\* C34: on each side get_volume_at_price is non-zero at exactly the prices of
\* that side's ordered level list, also when the list was cut to max_depth.
C34_VolumeWhereListed ==
  \A p \in Prices :
    /\ GetVolumeAtPrice(orderbook, "ask", p) # 0 <=> p \in ListedPrices(orderbook.asks)
    /\ GetVolumeAtPrice(orderbook, "bid", p) # 0 <=> p \in ListedPrices(orderbook.bids)


\* C35: every finished calculate_impact call has the outcome a call with its
\* arguments has on its own, whatever call another thread makes meanwhile.
C35_ImpactDependsOnArgumentsOnly ==
  \A t \in Threads :
    impact_calls[t].pc = "done" =>
      impact_calls[t].result =
        ImpactResult(orderbook, impact_calls[t].quantity, impact_calls[t].volatility)


\* C38: on a book with both sides non-empty SlippageModel.predict returns a value,
\* without raising, for every quantity Q >= 0, the quantity 0 included, and the
\* buy-side baseline it computes is not negative when the book is not crossed
\* (best ask >= best bid).
C38_PredictReturnsOnTwoSidedBook ==
  (SlippageCalled /\ orderbook.asks # <<>> /\ orderbook.bids # <<>>) =>
    /\ ~query.result.raised
    /\ ~query.baseline.raised
    /\ (orderbook.asks[1][1] >= orderbook.bids[1][1])
         => Leq(Whole(0), query.baseline.value)

====
